---- MODULE Spec2Model ----
(***************************************************************************)
(* A model of src/src/plink_bed.rs: the PLINK .bed reader (PlinkBed), its   *)
(* column chunk iterator (PlinkColChunkIter), the rayon producer built on   *)
(* it (ColChunkIterProducer) and the writers create_bed / create_bed_t.     *)
(*                                                                          *)
(* Conventions.  Files are sequences of bytes (0..255); byte offset o of a  *)
(* file is element o+1 of the sequence.  A matrix is a sequence of columns, *)
(* one per SNP, each a sequence of num_people genotypes.  An                *)
(* OrderedIntegerSet is the ascending sequence of its elements.  An         *)
(* Option is the empty sequence (None) or a non-empty one (Some).           *)
(* File indices and SNP indices are 0-based as in the source.               *)
(***************************************************************************)
EXTENDS Integers, Sequences, FiniteSets, TLC

VARIABLES
    overflow_checks,  \* build profile: TRUE = usize overflow panics (debug)
    num_people,       \* PlinkBed.num_people
    file_num_snps,    \* PlinkBed.file_num_snps: sequence of <<count, type>>
    files,            \* contents of the files of PlinkBed.bed_path_list
    iters,            \* the live PlinkColChunkIter values, in sub-range order
    mode,             \* per reader: "iter" (being pulled) or "producer"
    outs,             \* per reader: the chunks its pulls have returned
    par,              \* TRUE once into_par_iter has handed the reader over
    root,             \* the reader as col_chunk_iter built it (<<>> before)
    pre_out,          \* the chunks pulled before into_par_iter
    last_split,       \* the latest split_at: original, index and halves
    len_result,       \* the value the latest len() returned
    panicked,         \* TRUE once an unwrap / overflow check has aborted
    arr,              \* the dense matrix handed to create_bed
    geno_result,      \* the matrix get_genotype_matrix(None) returned
    bedt,             \* the file create_bed_t wrote
    bedt_args,        \* the <<file_index, snp_byte_chunk_size>> it was given
    bedt_ok,          \* whether create_bed_t returned Ok
    dom,              \* the file create_dominance_geno_bed wrote, and its result
    dom_args,         \* the file_index it was given
    dom_geno,         \* the matrix read back from the file it wrote
    new_result,       \* what PlinkBed::new / verify_magic_bytes returned
    codec_in,         \* the byte handed to the two-bit codec
    codec_out,        \* what the codec returned for it
    indexer_call      \* the latest get_file_snp_index call: index and result

vars == <<overflow_checks, num_people, file_num_snps, files, iters, mode,
          outs, par, root, pre_out, last_split, len_result, panicked, arr,
          geno_result, bedt, bedt_args, bedt_ok, dom, dom_args, dom_geno,
          new_result, codec_in, codec_out, indexer_call>>

(***************************************************************************)
(* Bounds of the model.                                                     *)
(***************************************************************************)
MaxPeople == 5      \* num_people ranges over 1..MaxPeople
MaxSnps == 4        \* total number of SNPs of a reader is at most MaxSnps
MaxFiles == 2       \* a reader has at most MaxFiles files
MaxChunk == 3       \* num_snps_per_iter ranges over 1..MaxChunk
MaxLeaves == 3      \* the executor stops splitting at MaxLeaves producers
MaxCells == 6       \* every matrix with at most MaxCells entries is written
MaxLines == 2       \* a .bim or .fam file has 0..MaxLines lines
MaxPulls == 3       \* next() calls followed on a reader that never ends
MaxHeadLen == 4     \* verify_magic_bytes is given files of 0..MaxHeadLen bytes
MaxByteChunk == 4   \* snp_byte_chunk_size ranges over 1..MaxByteChunk

(***************************************************************************)
(* Program constants.                                                       *)
(***************************************************************************)
MAGIC_BYTES == <<108, 27, 1>>
NUM_MAGIC_BYTES == 3
NUM_PEOPLE_PER_BYTE == 4
DefaultChunk == 100

None == <<>>
Some(x) == <<x>>
Min(a, b) == IF a < b THEN a ELSE b

(***************************************************************************)
(* u8 arithmetic.                                                           *)
(***************************************************************************)
RECURSIVE BitAnd(_, _)
BitAnd(a, b) ==
    IF a = 0 \/ b = 0 THEN 0
    ELSE (IF a % 2 = 1 /\ b % 2 = 1 THEN 1 ELSE 0)
         + 2 * BitAnd(a \div 2, b \div 2)

RECURSIVE BitOr(_, _)
BitOr(a, b) ==
    IF a = 0 THEN b
    ELSE IF b = 0 THEN a
    ELSE (IF a % 2 = 1 \/ b % 2 = 1 THEN 1 ELSE 0)
         + 2 * BitOr(a \div 2, b \div 2)

RECURSIVE BitXor(_, _)
BitXor(a, b) ==
    IF a = 0 THEN b
    ELSE IF b = 0 THEN a
    ELSE (IF a % 2 # b % 2 THEN 1 ELSE 0)
         + 2 * BitXor(a \div 2, b \div 2)

Not8(a) == 255 - a
Shr(a, n) == a \div (2 ^ n)
Shl8(a, n) == (a * (2 ^ n)) % 256

usize_div_ceil(a, divisor) ==
    (a \div divisor) + (IF a % divisor # 0 THEN 1 ELSE 0)

num_bytes_per_snp(n) == usize_div_ceil(n, NUM_PEOPLE_PER_BYTE)

(***************************************************************************)
(* The two-bit codec.                                                       *)
(***************************************************************************)
\* a variant of the decoder that takes `a & b` where the code has `a & !b`
lowest_two_bits_to_geno_NoComplement(byte) ==
    LET a == Shr(BitAnd(byte, 2), 1)
        b == BitAnd(byte, 1)
    IN  BitOr(Shl8(BitXor(BitOr(a, b), 1), 1), BitAnd(a, b))

\* a variant of the decoder that shifts the byte without masking bit 1
lowest_two_bits_to_geno_HighBitNotMasked(byte) ==
    LET a == Shr(byte, 1)
        b == BitAnd(byte, 1)
    IN  BitOr(Shl8(BitXor(BitOr(a, b), 1), 1), BitAnd(a, Not8(b)))

lowest_two_bits_to_geno(byte) ==
    LET a == Shr(BitAnd(byte, 2), 1)
        b == BitAnd(byte, 1)
    IN  BitOr(Shl8(BitXor(BitOr(a, b), 1), 1), BitAnd(a, Not8(b)))

\* a variant of the encoder that leaves out the `& not_a` of the low bit
geno_to_lowest_two_bits_LowBitNotMasked(geno) ==
    LET not_a == BitXor(Shr(BitAnd(geno, 2), 1), 1)
        not_b == BitXor(BitAnd(geno, 1), 1)
    IN  BitOr(Shl8(not_a, 1), not_b)

geno_to_lowest_two_bits(geno) ==
    LET not_a == BitXor(Shr(BitAnd(geno, 2), 1), 1)
        not_b == BitXor(BitAnd(geno, 1), 1)
    IN  BitOr(Shl8(not_a, 1), BitAnd(not_b, not_a))

get_num_people_last_byte(total_num_people) ==
    IF total_num_people = 0 THEN None
    ELSE IF total_num_people % NUM_PEOPLE_PER_BYTE = 0
         THEN Some(NUM_PEOPLE_PER_BYTE)
         ELSE Some(total_num_people % NUM_PEOPLE_PER_BYTE)

(***************************************************************************)
(* create_bed: the bytes written for a matrix.                              *)
(***************************************************************************)
RECURSIVE RemainderByte(_, _, _, _, _)
\* the loop `for j in 0..remainder { byte |= code(col[i + j]) << (j * 2) }`
RemainderByte(col, i, j, remainder, byte) ==
    IF j >= remainder THEN byte
    ELSE RemainderByte(col, i, j + 1, remainder,
            BitOr(byte, Shl8(geno_to_lowest_two_bits(col[i + j + 1]), j * 2)))

\* a variant of the full byte with the first two individuals exchanged
FullByte_FirstTwoSwapped(col, i) ==
    BitOr(BitOr(BitOr(geno_to_lowest_two_bits(col[i + 2]),
                      Shl8(geno_to_lowest_two_bits(col[i + 1]), 2)),
                Shl8(geno_to_lowest_two_bits(col[i + 3]), 4)),
          Shl8(geno_to_lowest_two_bits(col[i + 4]), 6))

\* the byte written for the four individuals col[i], .., col[i + 3]
FullByte(col, i) ==
    BitOr(BitOr(BitOr(geno_to_lowest_two_bits(col[i + 1]),
                      Shl8(geno_to_lowest_two_bits(col[i + 2]), 2)),
                Shl8(geno_to_lowest_two_bits(col[i + 3]), 4)),
          Shl8(geno_to_lowest_two_bits(col[i + 4]), 6))

ColBytes(col) ==
    LET np == Len(col)
        full == [q \in 1..(np \div 4) |-> FullByte(col, 4 * (q - 1))]
        remainder == np % 4
    IN  IF remainder > 0
        THEN Append(full, RemainderByte(col, 4 * (np \div 4), 0, remainder, 0))
        ELSE full

RECURSIVE ConcatAll(_)
ConcatAll(ss) == IF ss = <<>> THEN <<>> ELSE Head(ss) \o ConcatAll(Tail(ss))

create_bed(a) ==
    <<108, 27, 1>> \o ConcatAll([c \in 1..Len(a) |-> ColBytes(a[c])])

(***************************************************************************)
(* OrderedIntegerSet, as the reader uses it.                                *)
(***************************************************************************)
FromInterval(a, b) == [i \in 1..(b - a + 1) |-> a + i - 1]
RangeSize(r) == Len(r)
RangeFirst(r) == IF Len(r) = 0 THEN None ELSE Some(r[1])
RangeContains(r, x) == \E i \in 1..Len(r) : r[i] = x
RangeSlice(r, start, end) == SubSeq(r, start + 1, Min(end, Len(r)))

(***************************************************************************)
(* FileSnpIndexer::get_file_snp_index.                                      *)
(***************************************************************************)
RECURSIVE IndexWalk(_, _, _, _)
\* a variant of the walk that also gives a file the index one past its last
IndexWalk_InclusiveBound(fns, file_index, acc, snp_index) ==
    IF file_index >= Len(fns) THEN None
    ELSE IF snp_index <= acc + fns[file_index + 1][1]
         THEN Some(<<file_index, snp_index - acc, fns[file_index + 1][2]>>)
         ELSE IndexWalk(fns, file_index + 1, acc + fns[file_index + 1][1],
                        snp_index)

\* the loop over the files from file_index on, acc SNPs being before it
IndexWalk(fns, file_index, acc, snp_index) ==
    IF file_index >= Len(fns) THEN None
    ELSE IF snp_index < acc + fns[file_index + 1][1]
         THEN Some(<<file_index, snp_index - acc, fns[file_index + 1][2]>>)
         ELSE IndexWalk(fns, file_index + 1, acc + fns[file_index + 1][1],
                        snp_index)

get_file_snp_index(fns, snp_index) == IndexWalk(fns, 0, 0, snp_index)

RECURSIVE SumCounts(_, _)
\* file_num_snps.iter().take(n).map(|pair| pair.0).sum()
SumCounts(fns, n) ==
    IF n = 0 \/ fns = <<>> THEN 0
    ELSE fns[1][1] + SumCounts(Tail(fns), n - 1)

total_num_snps(fns) == SumCounts(fns, Len(fns))

(***************************************************************************)
(* BufReader<File>: a stream is its position; read_exact fails when fewer   *)
(* than n bytes remain.                                                     *)
(***************************************************************************)
ReadExact(file, pos, n) ==
    IF pos + n <= Len(file)
    THEN [ok |-> TRUE, bytes |-> SubSeq(file, pos + 1, pos + n)]
    ELSE [ok |-> FALSE, bytes |-> <<>>]

\* a variant of the offset that forgets the magic bytes
SnpOffset_NoMagicBytes(np, snp_index_within_file) ==
    num_bytes_per_snp(np) * snp_index_within_file

\* the byte offset of SNP block snp_index_within_file
SnpOffset(np, snp_index_within_file) ==
    NUM_MAGIC_BYTES + num_bytes_per_snp(np) * snp_index_within_file

(***************************************************************************)
(* PlinkColChunkIter.  A reader is a record of the struct's fields; buf     *)
(* holds the position of each file's stream.  Every operation returns the   *)
(* reader it leaves and ok = FALSE when it returns Err or panics.  A        *)
(* location loc is the Option get_file_snp_index returns.                   *)
(***************************************************************************)
\* the match of seek_to_snp on the location of the SNP
SeekToLocation(it, loc) ==
    IF loc = None
    THEN [ok |-> FALSE, it |-> it]
    ELSE [ok |-> TRUE,
          it |-> [it EXCEPT !.buf[loc[1][1] + 1] =
                                SnpOffset(it.num_people, loc[1][2])]]

seek_to_snp(it, snp_index) ==
    IF ~RangeContains(it.range, snp_index)
    THEN [ok |-> FALSE, it |-> it]
    ELSE SeekToLocation(it, get_file_snp_index(it.file_num_snps, snp_index))

\* a variant of the relative seek that skips the whole gap, forgetting that
\* the stream already stands after the SNP read last
RelativeSeekOffset_WholeGap(snp_index_gap, nbytes) ==
    IF snp_index_gap > 1 \/ snp_index_gap < 0
    THEN snp_index_gap * nbytes
    ELSE 0

\* the argument of seek_relative on the same-file path (0: no seek).  The
\* gap is a usize difference: a negative gap stands for the wrapped value,
\* for which (gap - 1) * nbytes cast to i64 is the negative offset
RelativeSeekOffset(snp_index_gap, nbytes) ==
    IF snp_index_gap > 1 \/ snp_index_gap < 0
    THEN (snp_index_gap - 1) * nbytes
    ELSE 0

ReadFailed(it) == [ok |-> FALSE, it |-> it, bytes |-> <<>>, snp_type |-> ""]

\* after read_exact: the stream has advanced, the location is remembered
AfterRead(it, loc, pos, nbytes, rd) ==
    IF ~rd.ok THEN ReadFailed(it)
    ELSE [ok |-> TRUE,
          it |-> [it EXCEPT !.buf[loc[1] + 1] = pos + nbytes,
                            !.last_read_file_snp_index =
                                Some(<<loc[1], loc[2]>>)],
          bytes |-> rd.bytes,
          snp_type |-> loc[3]]

\* read_exact of one SNP block of file loc[1] at stream position pos
ReadAt(it, fs, loc, nbytes, pos) ==
    IF pos < 0 THEN ReadFailed(it)
    ELSE AfterRead(it, loc, pos, nbytes,
                   ReadExact(fs[loc[1] + 1], pos, nbytes))

\* the same-file path: a relative seek over the gap, then the read.  With
\* overflow checks a negative gap panics
ReadRelative(it, fs, loc, nbytes, snp_index_gap, oc) ==
    IF snp_index_gap < 0 /\ oc THEN ReadFailed(it)
    ELSE ReadAt(it, fs, loc, nbytes,
                it.buf[loc[1] + 1] + RelativeSeekOffset(snp_index_gap, nbytes))

\* the other path: the read that follows self.seek_to_snp(snp_index)?
ReadAbsolute(sk, fs, loc, nbytes) ==
    IF ~sk.ok THEN ReadFailed(sk.it)
    ELSE ReadAt(sk.it, fs, loc, nbytes, sk.it.buf[loc[1] + 1])

\* a variant of the test that takes the relative path after any read,
\* whatever file it was in
SameFileAsLast_AnyFile(it, loc) ==
    /\ it.last_read_file_snp_index # None
    /\ loc[1] = loc[1]

\* whether the same-file path is taken
SameFileAsLast(it, loc) ==
    /\ it.last_read_file_snp_index # None
    /\ it.last_read_file_snp_index[1][1] = loc[1]

ReadSnpAt(it, fs, snp_index, oc, loc, nbytes) ==
    IF loc = None THEN ReadFailed(it)
    ELSE IF SameFileAsLast(it, loc[1])
         THEN ReadRelative(it, fs, loc[1], nbytes,
                           loc[1][2] - it.last_read_file_snp_index[1][2], oc)
         ELSE ReadAbsolute(seek_to_snp(it, snp_index), fs, loc[1], nbytes)

read_snp_bytes(it, fs, snp_index, oc) ==
    ReadSnpAt(it, fs, snp_index, oc,
              get_file_snp_index(it.file_num_snps, snp_index),
              num_bytes_per_snp(it.num_people))

\* the number of people decoded from a block of nbytes bytes
NumDecoded(nbytes, last) ==
    4 * (nbytes - 1) + (IF last = None THEN 0 ELSE last[1])

\* the decoding loops of read_chunk: 4 people of every byte but the last,
\* num_people_last_byte people of the last byte
DecodeSnp(snp_bytes, np) ==
    [n \in 1..NumDecoded(num_bytes_per_snp(np), get_num_people_last_byte(np)) |->
        lowest_two_bits_to_geno(
            Shr(snp_bytes[((n - 1) \div 4) + 1], 2 * ((n - 1) % 4)))]

RECURSIVE SumSeq(_)
SumSeq(s) == IF s = <<>> THEN 0 ELSE Head(s) + SumSeq(Tail(s))

\* a variant of the values with p = sum / n, the 2 of 2 n forgotten
DominanceValues_FrequencyOverN(geno_vec, n, sum) ==
    [i \in 1..n |-> IF geno_vec[i] = 2 THEN <<4 * sum - 2 * n, n>>
                    ELSE IF geno_vec[i] = 1 THEN <<2 * sum, n>>
                    ELSE <<0, 1>>]

\* the f32 values are kept exact, as fractions <<numerator, denominator>>:
\* p = sum / (2 n), hetero = 2 p = sum / n, homo_minor = 4 p - 2
DominanceValues(geno_vec, n, sum) ==
    [i \in 1..n |-> IF geno_vec[i] = 2 THEN <<2 * sum - 2 * n, n>>
                    ELSE IF geno_vec[i] = 1 THEN <<sum, n>>
                    ELSE <<0, 1>>]

convert_geno_vec_to_dominance_representation(geno_vec) ==
    DominanceValues(geno_vec, Len(geno_vec), SumSeq(geno_vec))

\* v.append(match snp_type { .. })
ColumnOf(snp_type, snp_vec) ==
    IF snp_type = "Dominance"
    THEN convert_geno_vec_to_dominance_representation(snp_vec)
    ELSE snp_vec

RECURSIVE ReadLoop(_, _, _, _, _, _)
RECURSIVE ReadLoopBody(_, _, _, _, _, _)

\* the body of the loop for the SNP just read (rd): decode, append, go on
ReadLoopBody(rd, fs, snp_indices, p, v, oc) ==
    IF ~rd.ok THEN [ok |-> FALSE, it |-> rd.it, cols |-> v]
    ELSE ReadLoop(rd.it, fs, snp_indices, p + 1,
                  Append(v, ColumnOf(rd.snp_type,
                                     DecodeSnp(rd.bytes, rd.it.num_people))),
                  oc)

\* `for index in snp_indices.to_iter()` of read_chunk, from position p
ReadLoop(it, fs, snp_indices, p, v, oc) ==
    IF p > Len(snp_indices) THEN [ok |-> TRUE, it |-> it, cols |-> v]
    ELSE ReadLoopBody(read_snp_bytes(it, fs, snp_indices[p], oc),
                      fs, snp_indices, p, v, oc)

\* a variant of the slice that hands its SNPs out from the highest down
ChunkIndices_Descending(it, chunk_size) ==
    [p \in 1..Len(RangeSlice(it.range, it.range_cursor, it.range_cursor + chunk_size)) |->
        RangeSlice(it.range, it.range_cursor, it.range_cursor + chunk_size)[
            Len(RangeSlice(it.range, it.range_cursor, it.range_cursor + chunk_size)) + 1 - p]]

\* the SNPs read_chunk reads: chunk_size ranks of the range from the cursor
ChunkIndices(it, chunk_size) ==
    RangeSlice(it.range, it.range_cursor, it.range_cursor + chunk_size)

\* a chunk is the matrix read_chunk returns, as its columns (cols), with
\* the SNP indices the columns were read for (idx)
ChunkResult(snp_indices, loop) ==
    [ok |-> loop.ok, it |-> loop.it,
     chunk |-> [idx |-> snp_indices, cols |-> loop.cols]]

\* a variant of read_chunk that leaves range_cursor where it was
ReadIndices_CursorKept(it, fs, snp_indices, oc) ==
    ChunkResult(snp_indices, ReadLoop(it, fs, snp_indices, 1, <<>>, oc))

\* read_chunk once the SNPs to read are known: the cursor moves past them,
\* then they are read one by one
ReadIndices(it, fs, snp_indices, oc) ==
    ChunkResult(snp_indices,
                ReadLoop([it EXCEPT !.range_cursor = @ + RangeSize(snp_indices)],
                         fs, snp_indices, 1, <<>>, oc))

read_chunk(it, fs, chunk_size, oc) ==
    ReadIndices(it, fs, ChunkIndices(it, chunk_size), oc)

\* the struct PlinkColChunkIter::new fills in, streams freshly opened
NewReader(fns, range, k, np, nfiles) ==
    [buf |-> [f \in 1..nfiles |-> 0],
     file_num_snps |-> fns,
     range |-> range,
     num_snps_per_iter |-> k,
     num_people |-> np,
     num_snps_in_range |-> RangeSize(range),
     range_cursor |-> 0,
     last_read_file_snp_index |-> None]

\* the SNP PlinkColChunkIter::new seeks to
FirstOrZero(first) == IF first # None THEN first[1] ELSE 0

PlinkColChunkIter_new(fns, range, k, np, nfiles) ==
    seek_to_snp(NewReader(fns, range, k, np, nfiles),
                FirstOrZero(RangeFirst(range)))

clone_with_range(it, range) ==
    PlinkColChunkIter_new(it.file_num_snps, range, it.num_snps_per_iter,
                          it.num_people, Len(it.buf))

\* the range col_chunk_iter hands to PlinkColChunkIter::new
RangeOrAll(fns, range) ==
    IF range # None THEN range[1]
    ELSE FromInterval(0, total_num_snps(fns) - 1)

col_chunk_iter(fns, np, nfiles, k, range) ==
    PlinkColChunkIter_new(fns, RangeOrAll(fns, range), k, np, nfiles)

\* min(num_snps_per_iter, num_snps_in_range - range_cursor)
NextChunkSize(it) ==
    Min(it.num_snps_per_iter, it.num_snps_in_range - it.range_cursor)

\* Some(chunk) of a pull; some = FALSE stands for None
Pulled(rc) == [ok |-> rc.ok, some |-> TRUE, it |-> rc.it, chunk |-> rc.chunk]
PulledNone(it) == [ok |-> TRUE, some |-> FALSE, it |-> it, chunk |-> <<>>]
PullFailed(it) == [ok |-> FALSE, some |-> TRUE, it |-> it, chunk |-> <<>>]

\* Iterator::next
next(it, fs, oc) ==
    IF it.range_cursor >= it.num_snps_in_range
    THEN PulledNone(it)
    ELSE Pulled(read_chunk(it, fs, NextChunkSize(it), oc))

\* the SNP index next_back seeks back to after its read
RestoreIndex(it, saved) ==
    IF saved # None
    THEN SumCounts(it.file_num_snps, saved[1][1]) + saved[1][2]
    ELSE 0

\* next_back after the second seek_to_snp: the saved location is restored
BackRestored(sk2, saved, chunk) ==
    IF ~sk2.ok THEN PullFailed(sk2.it)
    ELSE [ok |-> TRUE, some |-> TRUE,
          it |-> [sk2.it EXCEPT !.last_read_file_snp_index = saved],
          chunk |-> chunk]

\* next_back after read_chunk: seek back to the saved location, or SNP 0
BackAfterRead(rc, saved) ==
    IF ~rc.ok THEN PullFailed(rc.it)
    ELSE BackRestored(seek_to_snp(rc.it, RestoreIndex(rc.it, saved)),
                      saved, rc.chunk)

\* next_back after the first seek_to_snp: read_chunk(chunk_size)
BackAfterSeek(sk1, fs, chunk_size, saved, oc) ==
    IF ~sk1.ok THEN PullFailed(sk1.it)
    ELSE BackAfterRead(read_chunk(sk1.it, fs, chunk_size, oc), saved)

\* next_back from `let snp = self.range.slice(..).first().unwrap()` on
BackFrom(it1, fs, chunk_size, saved, snp, oc) ==
    IF snp = None THEN PullFailed(it1)
    ELSE BackAfterSeek(seek_to_snp(it1, snp[1]), fs, chunk_size, saved, oc)

\* the reader once next_back has lowered num_snps_in_range and cleared
\* last_read_file_snp_index
BackLowered(it, chunk_size) ==
    [it EXCEPT !.num_snps_in_range = @ - chunk_size,
               !.last_read_file_snp_index = None]

\* the SNP at rank num_snps_in_range
SnpAtBound(it1) ==
    RangeFirst(RangeSlice(it1.range, it1.num_snps_in_range,
                          it1.num_snps_in_range + 1))

NextBackOf(it1, fs, chunk_size, saved, oc) ==
    BackFrom(it1, fs, chunk_size, saved, SnpAtBound(it1), oc)

\* DoubleEndedIterator::next_back
next_back(it, fs, oc) ==
    IF it.range_cursor >= it.num_snps_in_range
    THEN PulledNone(it)
    ELSE NextBackOf(BackLowered(it, NextChunkSize(it)), fs, NextChunkSize(it),
                    it.last_read_file_snp_index, oc)

\* ExactSizeIterator::len.  The subtraction is on usize: with overflow
\* checks a negative difference panics (ok = FALSE); without them it wraps
\* (underflow = TRUE, and val = -1 stands for a value near 2^64 / k).  The
\* division of usize_div_ceil by k = 0 panics in every build
LenOf(it, underflow, oc) ==
    [ok |-> ~(underflow /\ oc) /\ it.num_snps_per_iter # 0,
     underflow |-> underflow,
     val |-> IF underflow \/ it.num_snps_per_iter = 0 THEN -1
             ELSE usize_div_ceil(it.num_snps_in_range - it.range_cursor,
                                 it.num_snps_per_iter)]

len(it, oc) == LenOf(it, it.num_snps_in_range < it.range_cursor, oc)

\* min(num_snps_per_iter * index, range.size())
MidRangeIndex(it, index) ==
    Min(it.num_snps_per_iter * index, RangeSize(it.range))

SplitResult(a, b) == [ok |-> a.ok /\ b.ok, first |-> a.it, second |-> b.it]

SplitAtMid(it, mid_range_index) ==
    SplitResult(
        clone_with_range(it, RangeSlice(it.range, 0, mid_range_index)),
        clone_with_range(it, RangeSlice(it.range, mid_range_index,
                                        RangeSize(it.range))))

\* Producer::split_at
split_at(it, index) == SplitAtMid(it, MidRangeIndex(it, index))

RECURSIVE RunAll(_, _, _)
RECURSIVE RunAllFrom(_, _, _)

RunAllCons(chunk, rest) ==
    [ok |-> rest.ok, chunks |-> <<chunk>> \o rest.chunks]

RunAllFrom(nx, fs, oc) ==
    IF ~nx.ok THEN [ok |-> FALSE, chunks |-> <<>>]
    ELSE IF ~nx.some THEN [ok |-> TRUE, chunks |-> <<>>]
    ELSE RunAllCons(nx.chunk, RunAll(nx.it, fs, oc))

\* every chunk the reader yields when next() is called until it returns None
RunAll(it, fs, oc) == RunAllFrom(next(it, fs, oc), fs, oc)

\* the columns of a sequence of chunks, in order
ColumnsOf(chunks) == ConcatAll([i \in 1..Len(chunks) |-> chunks[i].cols])
IndicesOf(chunks) == ConcatAll([i \in 1..Len(chunks) |-> chunks[i].idx])

GenotypeColumns(run) ==
    IF ~run.ok THEN [ok |-> FALSE, cols |-> <<>>]
    ELSE [ok |-> TRUE, cols |-> ColumnsOf(run.chunks)]

GenotypeMatrixOf(built, fs, oc) ==
    IF ~built.ok THEN [ok |-> FALSE, cols |-> <<>>]
    ELSE GenotypeColumns(RunAll(built.it, fs, oc))

\* PlinkBed::get_genotype_matrix: the chunks of col_chunk_iter(100, range)
\* appended column after column
get_genotype_matrix(fns, np, fs, snps_range, oc) ==
    GenotypeMatrixOf(col_chunk_iter(fns, np, Len(fs), DefaultChunk, snps_range),
                     fs, oc)

(***************************************************************************)
(* PlinkBed::create_bed_t.                                                  *)
(***************************************************************************)
\* the row of people_buf that the two bits at `offset` of source byte w go to
PeopleBufRow(w, offset) == w + offset

\* people_buf[row][snp_byte_index] |= ((byte >> 2 * offset) & 0b11)
\*                                      << (snp_offset << 1)
OrInto(people_buf, w, offset, byte, snp_byte_index, snp_offset) ==
    [people_buf EXCEPT ![PeopleBufRow(w, offset) + 1][snp_byte_index + 1] =
        BitOr(@, Shl8(BitAnd(Shr(byte, 2 * offset), 3), snp_offset * 2))]

\* the four statements of the loop body for source byte w
SpreadByte(people_buf, w, byte, snp_byte_index, snp_offset) ==
    OrInto(OrInto(OrInto(OrInto(people_buf,
        w, 0, byte, snp_byte_index, snp_offset),
        w, 1, byte, snp_byte_index, snp_offset),
        w, 2, byte, snp_byte_index, snp_offset),
        w, 3, byte, snp_byte_index, snp_offset)

RECURSIVE SpreadBytes(_, _, _, _, _)
\* `for w in 0..snp_bytes.len()` for one SNP
SpreadBytes(people_buf, snp_bytes, w, snp_byte_index, snp_offset) ==
    IF w >= Len(snp_bytes) THEN people_buf
    ELSE SpreadBytes(SpreadByte(people_buf, w, snp_bytes[w + 1],
                                snp_byte_index, snp_offset),
                     snp_bytes, w + 1, snp_byte_index, snp_offset)

RECURSIVE SnpLoop(_, _, _, _, _, _, _)
RECURSIVE SnpLoopBody(_, _, _, _, _, _, _, _)

\* one SNP block read (rd): spread its bytes, seek_relative(rel), go on
SnpLoopBody(rd, people_buf, file, pos, m, total, snp_len, rel) ==
    IF ~rd.ok THEN [ok |-> FALSE, people_buf |-> people_buf]
    ELSE SnpLoop(SpreadBytes(people_buf, rd.bytes, 0, m \div 4, m % 4),
                 file, pos + snp_len + rel, m + 1, total, snp_len, rel)

\* the two nested loops over the SNPs k, k + 1, .. of one block of people:
\* SNP m is snp_offset m % 4 of output byte m / 4; the stream is at pos
SnpLoop(people_buf, file, pos, m, total, snp_len, relative_seek_offset) ==
    IF m >= total THEN [ok |-> TRUE, people_buf |-> people_buf]
    ELSE SnpLoopBody(ReadExact(file, pos, snp_len), people_buf, file, pos, m,
                     total, snp_len, relative_seek_offset)

\* vec![vec![0u8; num_bytes_per_person]; people_stride]
ZeroPeopleBuf(people_stride, num_bytes_per_person) ==
    [p \in 1..people_stride |-> [t \in 1..num_bytes_per_person |-> 0]]

\* the length of snp_bytes in the block of people starting at j
SnpBytesLen(np, j, people_stride, snp_len_before) ==
    IF np - j < people_stride
    THEN usize_div_ceil(np % people_stride, 4)
    ELSE snp_len_before

\* seek_to_byte_containing_snp_i_person_j
ByteOfSnpPerson(snp_i, person_j, nbytes) ==
    NUM_MAGIC_BYTES + nbytes * snp_i + (person_j \div NUM_PEOPLE_PER_BYTE)

\* the rows written for the block: those of people below num_people
RowsWritten(people_buf, people_stride, np, j) ==
    ConcatAll([p \in 1..Min(people_stride, np - j) |-> people_buf[p]])

RECURSIVE PeopleLoop(_, _, _, _, _, _, _)
RECURSIVE PeopleLoopBody(_, _, _, _, _, _, _, _)

PeopleLoopBody(lp, file, np, total, j, people_stride, snp_len, out) ==
    IF ~lp.ok THEN [ok |-> FALSE, bytes |-> out]
    ELSE PeopleLoop(file, np, total, j + people_stride, people_stride,
                    snp_len,
                    out \o RowsWritten(lp.people_buf, people_stride, np, j))

PeopleBlock(file, np, total, j, people_stride, snp_len, out) ==
    PeopleLoopBody(
        SnpLoop(ZeroPeopleBuf(people_stride, usize_div_ceil(total, 4)), file,
                ByteOfSnpPerson(0, j, num_bytes_per_snp(np)), 0, total,
                snp_len, num_bytes_per_snp(np) - snp_len),
        file, np, total, j, people_stride, snp_len, out)

\* `for j in (0..num_people).step_by(people_stride)`; out is what has been
\* written so far, snp_len_before the length of snp_bytes so far
PeopleLoop(file, np, total, j, people_stride, snp_len_before, out) ==
    IF j >= np THEN [ok |-> TRUE, bytes |-> out]
    ELSE PeopleBlock(file, np, total, j, people_stride,
                     SnpBytesLen(np, j, people_stride, snp_len_before), out)

BedTResult(r) == [ok |-> r.ok, bytes |-> Some(r.bytes)]

create_bed_t(fns, np, fs, file_index, snp_byte_chunk_size) ==
    IF file_index >= Len(fs) THEN [ok |-> FALSE, bytes |-> None]
    ELSE BedTResult(PeopleLoop(fs[file_index + 1], np, total_num_snps(fns), 0,
                               snp_byte_chunk_size * 4, snp_byte_chunk_size,
                               <<>>))

(***************************************************************************)
(* PlinkBed::create_dominance_geno_bed.  ByteChunkIter and PlinkSnps are    *)
(* modules of the crate outside this file: they follow the Byte Chunk       *)
(* Reader and the Packed SNP View of the specification.                     *)
(***************************************************************************)
RECURSIVE ByteChunks(_, _, _, _)
RECURSIVE ByteChunksCons(_, _, _, _, _)

\* the chunk just read (rd) followed by the chunks after it
ByteChunksCons(rd, file, cursor, end, chunk_size) ==
    IF ~rd.ok THEN [ok |-> FALSE, chunks |-> <<>>]
    ELSE [ok |-> ByteChunks(file, cursor + Len(rd.bytes), end, chunk_size).ok,
          chunks |-> <<rd.bytes>>
                     \o ByteChunks(file, cursor + Len(rd.bytes), end,
                                   chunk_size).chunks]

\* the slices ByteChunkIter yields from cursor up to end: chunk_size bytes
\* each, a shorter last one; ok = FALSE when the stream ends before end
ByteChunks(file, cursor, end, chunk_size) ==
    IF cursor >= end THEN [ok |-> TRUE, chunks |-> <<>>]
    ELSE ByteChunksCons(ReadExact(file, cursor, Min(chunk_size, end - cursor)),
                        file, cursor, end, chunk_size)

\* PlinkBed::byte_chunk_iter(file_index, start, end, chunk_size)
byte_chunk_iter(fs, file_index, start, end, chunk_size) ==
    IF file_index >= Len(fs) THEN [ok |-> FALSE, chunks |-> <<>>]
    ELSE ByteChunks(fs[file_index + 1], start, end, chunk_size)

\* PlinkSnps::new(bytes, num_snps).into_iter(): the decoded genotypes
PlinkSnps_into_iter(bytes, num_snps) ==
    [n \in 1..num_snps |->
        lowest_two_bits_to_geno(
            Shr(bytes[((n - 1) \div 4) + 1], 2 * ((n - 1) % 4)))]

RECURSIVE PackByte(_, _, _, _)
\* the byte holding the codes of geno[i + j ..], four to a byte, low bits
\* first, started from zero
PackByte(geno, i, j, byte) ==
    IF j >= 4 \/ i + j >= Len(geno) THEN byte
    ELSE PackByte(geno, i, j + 1,
                  BitOr(byte, Shl8(geno_to_lowest_two_bits(geno[i + j + 1]),
                                   2 * j)))

\* PlinkSnps::from_geno(geno).into_bytes()
PlinkSnps_from_geno(geno) ==
    [q \in 1..usize_div_ceil(Len(geno), 4) |->
        PackByte(geno, 4 * (q - 1), 0, 0)]

\* a variant of the closure that leaves every genotype as it is
DominanceCode_Unchanged(g) == g

\* the closure |s| match s { 2 => 1, s => s }
DominanceCode(g) == IF g = 2 THEN 1 ELSE g

\* the body of the loop over the chunks: the bytes written for one chunk
DominanceBytes(bytes, np) ==
    PlinkSnps_from_geno(
        [n \in 1..np |-> DominanceCode(PlinkSnps_into_iter(bytes, np)[n])])

\* the file after the loop: the magic bytes, then the bytes of every chunk.
\* out_path is opened with create and truncate, and the magic bytes are
\* written, before byte_chunk_iter is called: when it returns Err the
\* writer is dropped, which flushes what it holds
DominanceWritten(it, np) ==
    [ok |-> it.ok,
     created |-> TRUE,
     bytes |-> MAGIC_BYTES
               \o ConcatAll([c \in 1..Len(it.chunks) |->
                                DominanceBytes(it.chunks[c], np)])]

create_dominance_geno_bed(fns, np, fs, file_index) ==
    DominanceWritten(
        byte_chunk_iter(fs, file_index, NUM_MAGIC_BYTES,
                        NUM_MAGIC_BYTES
                          + total_num_snps(fns) * num_bytes_per_snp(np),
                        num_bytes_per_snp(np)),
        np)

(***************************************************************************)
(* PlinkBed::new and verify_magic_bytes.  A record of the list is the       *)
(* content of the .bed file, the line counts of the .bim and .fam files     *)
(* and the SNP type; every file can be opened.                              *)
(***************************************************************************)
Ok == [ok |-> TRUE, err |-> ""]
Err(kind) == [ok |-> FALSE, err |-> kind]

\* a variant of the check that compares the first two bytes only
verify_magic_bytes_TwoBytes(bed) ==
    IF ~ReadExact(bed, 0, 3).ok THEN Err("IO")
    ELSE IF SubSeq(ReadExact(bed, 0, 3).bytes, 1, 2) # SubSeq(MAGIC_BYTES, 1, 2)
         THEN Err("BadFormat")
         ELSE Ok

verify_magic_bytes(bed) ==
    IF ~ReadExact(bed, 0, 3).ok THEN Err("IO")
    ELSE IF ReadExact(bed, 0, 3).bytes # MAGIC_BYTES THEN Err("BadFormat")
         ELSE Ok

RECURSIVE VerifyAll(_, _)
\* `for p in bed_path_list.iter() { verify_magic_bytes(&p)? }` from record i
VerifyAll(recs, i) ==
    IF i > Len(recs) THEN Ok
    ELSE IF ~verify_magic_bytes(recs[i].bed).ok
         THEN verify_magic_bytes(recs[i].bed)
         ELSE VerifyAll(recs, i + 1)

\* the (num_snps, snp_type) pairs collected from the .bim line counts
FileNumSnps(recs) == [i \in 1..Len(recs) |-> <<recs[i].bim, recs[i].snp_type>>]

\* the HashSet of the .fam line counts
NumPeopleSet(recs) == {recs[i].fam : i \in 1..Len(recs)}

NewFailed(kind) ==
    [ok |-> FALSE, err |-> kind, num_people |-> 0, file_num_snps |-> <<>>,
     bed_path_list |-> <<>>]

\* a variant of the people check that lets 0 people through
NewPeople_ZeroAllowed(recs, num_people_set) ==
    IF Cardinality(num_people_set) > 1 THEN NewFailed("Generic")
    ELSE [ok |-> TRUE, err |-> "",
          num_people |-> CHOOSE n \in num_people_set : TRUE,
          file_num_snps |-> FileNumSnps(recs),
          bed_path_list |-> [i \in 1..Len(recs) |-> recs[i].bed]]

\* PlinkBed::new from the num_people block on
NewPeople(recs, num_people_set) ==
    IF Cardinality(num_people_set) > 1 THEN NewFailed("Generic")
    ELSE IF (CHOOSE n \in num_people_set : TRUE) = 0 THEN NewFailed("Generic")
    ELSE [ok |-> TRUE, err |-> "",
          num_people |-> CHOOSE n \in num_people_set : TRUE,
          file_num_snps |-> FileNumSnps(recs),
          bed_path_list |-> [i \in 1..Len(recs) |-> recs[i].bed]]

\* PlinkBed::new once the list is known to be non-empty
NewChecked(recs, verified) ==
    IF ~verified.ok THEN NewFailed(verified.err)
    ELSE IF \E i \in 1..Len(recs) : recs[i].bim = 0 THEN NewFailed("Generic")
    ELSE NewPeople(recs, NumPeopleSet(recs))

PlinkBed_new(recs) ==
    IF recs = <<>> THEN NewFailed("Generic")
    ELSE NewChecked(recs, VerifyAll(recs, 1))

(***************************************************************************)
(* Inputs.                                                                  *)
(***************************************************************************)
RECURSIVE SortedSeq(_)
SortedSeq(S) ==
    IF S = {} THEN <<>>
    ELSE LET m == CHOOSE x \in S : \A y \in S : x <= y
         IN  <<m>> \o SortedSeq(S \ {m})

\* the OrderedIntegerSets within [0, total)
RangeSets(total) == {SortedSeq(S) : S \in SUBSET (0..(total - 1))}

\* the lists of per-file SNP counts
Layouts ==
    {l \in UNION {[1..nf -> 1..MaxSnps] : nf \in 1..MaxFiles} :
        SumSeq(l) <= MaxSnps}

\* the genotype of person n at logical SNP s in the files the readers read:
\* any two of the first nine SNPs differ in person 0 or 1
PatternGeno(n, s) == (((s \div (3 ^ (n % 2))) % 3) + (n \div 2)) % 3

PatternMatrix(np, first_snp, nv) ==
    [c \in 1..nv |-> [n \in 1..np |-> PatternGeno(n - 1, first_snp + c - 1)]]

PatternFiles(np, layout) ==
    [f \in 1..Len(layout) |->
        create_bed(PatternMatrix(np, SumSeq(SubSeq(layout, 1, f - 1)),
                                 layout[f]))]

\* every matrix over {0,1,2} with at most MaxCells entries
SmallMatrices ==
    UNION {[1..nv -> [1..np -> 0..2]] :
            <<np, nv>> \in {d \in (1..MaxPeople) \X (1..MaxCells) :
                               d[1] * d[2] <= MaxCells}}

BedMatrices ==
    SmallMatrices
    \cup {PatternMatrix(np, 0, nv) : np \in 1..MaxPeople, nv \in 1..MaxSnps}

\* nothing written by the writers, nothing asked of the builder or the codec
NoOutputs ==
    /\ geno_result = None
    /\ bedt = None
    /\ bedt_args = None
    /\ bedt_ok = None
    /\ dom = None
    /\ dom_args = None
    /\ dom_geno = None
    /\ new_result = None
    /\ codec_in = None
    /\ codec_out = None
    /\ indexer_call = None

RECURSIVE RawByte(_, _, _, _)
\* the byte holding the two-bit codes codes[i + j ..], low bits first
RawByte(codes, i, j, byte) ==
    IF j >= 4 \/ i + j >= Len(codes) THEN byte
    ELSE RawByte(codes, i, j + 1, byte + codes[i + j + 1] * (4 ^ j))

\* the SNP block of a column of two-bit codes, one code per person
RawBlock(codes) ==
    [q \in 1..usize_div_ceil(Len(codes), 4) |->
        RawByte(codes, 4 * (q - 1), 0, 0)]

\* every packed file of at most MaxCells codes: any of the four codes, the
\* missing code 01 included, for every person at every SNP
RawCodeMatrices ==
    UNION {[1..nv -> [1..np -> 0..3]] :
            <<np, nv>> \in {d \in (1..MaxPeople) \X (1..MaxSnps) :
                               d[1] * d[2] <= MaxCells}}

RawFile(m) == MAGIC_BYTES \o ConcatAll([c \in 1..Len(m) |-> RawBlock(m[c])])

\* .bed contents handed to verify_magic_bytes: every file of at most
\* MaxHeadLen bytes over the magic bytes and one other value
BedContents ==
    UNION {[1..n -> {108, 27, 1, 0}] : n \in 0..MaxHeadLen}

\* .bed contents of the records: a cut header, a good file, and files with
\* the first or the last magic byte changed
RecordBeds ==
    {<<108, 27>>, <<108, 27, 1, 3>>, <<107, 27, 1, 3>>, <<108, 27, 2, 3>>}

\* the records handed to PlinkBed::new
BfileRecords ==
    [bed : RecordBeds, bim : 0..MaxLines, fam : 0..MaxLines,
     snp_type : {"Additive"}]

\* the lists of at most MaxFiles records
BfileLists == UNION {[1..nf -> BfileRecords] : nf \in 0..MaxFiles}

NoReader ==
    /\ iters = <<>>
    /\ mode = <<>>
    /\ outs = <<>>
    /\ par = FALSE
    /\ root = None
    /\ pre_out = <<>>
    /\ last_split = None
    /\ len_result = None
    /\ panicked = FALSE

\* a PlinkBed built by PlinkBed::new over files written by create_bed
Init ==
    /\ overflow_checks \in BOOLEAN
    /\ \E np \in 1..MaxPeople, layout \in Layouts :
          /\ num_people = np
          /\ file_num_snps = [f \in 1..Len(layout) |-> <<layout[f], "Additive">>]
          /\ files = PatternFiles(np, layout)
    /\ NoReader
    /\ arr = None
    /\ NoOutputs

\* a matrix in memory, no file written yet
InitBed ==
    /\ overflow_checks \in BOOLEAN
    /\ num_people = 0
    /\ file_num_snps = <<>>
    /\ files = <<>>
    /\ NoReader
    /\ arr \in {Some(m) : m \in BedMatrices}
    /\ NoOutputs

\* a PlinkBed over one packed file of arbitrary codes
InitRaw ==
    /\ overflow_checks \in BOOLEAN
    /\ \E m \in RawCodeMatrices :
          /\ num_people = Len(m[1])
          /\ file_num_snps = << <<Len(m), "Additive">> >>
          /\ files = <<RawFile(m)>>
    /\ NoReader
    /\ arr = None
    /\ NoOutputs

\* a byte about to be handed to the codec; no PlinkBed
InitCodec ==
    /\ overflow_checks = FALSE
    /\ num_people = 0
    /\ file_num_snps = <<>>
    /\ files = <<>>
    /\ NoReader
    /\ arr = None
    /\ geno_result = None
    /\ bedt = None
    /\ bedt_args = None
    /\ bedt_ok = None
    /\ dom = None
    /\ dom_args = None
    /\ dom_geno = None
    /\ new_result = None
    /\ codec_in \in {Some(b) : b \in 0..255}
    /\ codec_out = None
    /\ indexer_call = None

\* no PlinkBed built yet
InitNew ==
    /\ overflow_checks = FALSE
    /\ num_people = 0
    /\ file_num_snps = <<>>
    /\ files = <<>>
    /\ NoReader
    /\ arr = None
    /\ NoOutputs

\* the lists of per-file SNP counts, every file Additive or Dominance
KindLayouts ==
    UNION {[1..Len(l) -> {l[f] : f \in 1..Len(l)} \X {"Additive", "Dominance"}] :
              l \in Layouts}

\* the two-bit code of person n at logical SNP s in files of any code:
\* with four people or more a column holds all four codes
PatternCode(n, s) == (n + s) % 4

\* the packed files of np people for a list of <<count, kind>> pairs
PatternCodeFiles(np, fns) ==
    [f \in 1..Len(fns) |->
        RawFile([c \in 1..fns[f][1] |->
                    [n \in 1..np |->
                        PatternCode(n - 1, SumCounts(fns, f - 1) + c - 1)]])]

\* a PlinkBed over Additive and Dominance files of any code
InitKinds ==
    /\ overflow_checks \in BOOLEAN
    /\ num_people \in 1..MaxPeople
    /\ file_num_snps \in KindLayouts
    /\ files = PatternCodeFiles(num_people, file_num_snps)
    /\ NoReader
    /\ arr = None
    /\ NoOutputs

\* a FileSnpIndexer over any list of counts and kinds; no file is read
InitIndexer ==
    /\ overflow_checks = FALSE
    /\ num_people = 0
    /\ file_num_snps \in KindLayouts
    /\ files = <<>>
    /\ NoReader
    /\ arr = None
    /\ NoOutputs

bedVars == <<num_people, file_num_snps, files, overflow_checks>>
otherVars == <<dom, dom_args, dom_geno, new_result, codec_in, codec_out,
               indexer_call>>
writerVars == <<arr, geno_result, bedt, bedt_args, bedt_ok, otherVars>>
readerVars == <<iters, mode, outs, par, root, pre_out, last_split,
                len_result, panicked>>

(***************************************************************************)
(* Actions.                                                                 *)
(***************************************************************************)
\* the reader col_chunk_iter returns becomes the reader of the run; the
\* unwrap() in PlinkColChunkIter::new panics when the first seek fails
Built(built) ==
    IF built.ok
    THEN /\ iters' = <<built.it>>
         /\ mode' = <<"iter">>
         /\ outs' = <<(<<>>)>>
         /\ root' = Some(built.it)
         /\ UNCHANGED panicked
    ELSE /\ panicked' = TRUE
         /\ UNCHANGED <<iters, mode, outs, root>>

\* PlinkBed::col_chunk_iter(k, range)
ColChunkIter(k, range) ==
    /\ ~panicked
    /\ files # <<>>
    /\ root = None
    /\ Built(col_chunk_iter(file_num_snps, num_people, Len(files), k, range))
    /\ UNCHANGED <<par, pre_out, last_split, len_result>>
    /\ UNCHANGED <<bedVars, writerVars>>

\* a variant of the pull in which the readers share their streams: the
\* positions reader i leaves are the positions of every reader
Pull_SharedStreams(i, nx) ==
    IF ~nx.ok
    THEN /\ panicked' = TRUE
         /\ UNCHANGED <<iters, outs>>
    ELSE /\ iters' = [j \in 1..Len(iters) |->
                         IF j = i THEN nx.it
                         ELSE [iters[j] EXCEPT !.buf = nx.it.buf]]
         /\ outs' = IF nx.some
                    THEN [outs EXCEPT ![i] = Append(@, nx.chunk)]
                    ELSE outs
         /\ UNCHANGED panicked

\* the effect of a pull nx on reader i: the reader moves on and the chunk,
\* if any, is handed to the caller; a failed pull is a panic
Pull(i, nx) ==
    IF ~nx.ok
    THEN /\ panicked' = TRUE
         /\ UNCHANGED <<iters, outs>>
    ELSE /\ iters' = [iters EXCEPT ![i] = nx.it]
         /\ outs' = IF nx.some
                    THEN [outs EXCEPT ![i] = Append(@, nx.chunk)]
                    ELSE outs
         /\ UNCHANGED panicked

\* a call of next() on reader i
PullNext(i) ==
    /\ ~panicked
    /\ i \in 1..Len(iters)
    /\ mode[i] = "iter"
    /\ Pull(i, next(iters[i], files, overflow_checks))
    /\ UNCHANGED <<mode, par, root, pre_out, last_split, len_result>>
    /\ UNCHANGED <<bedVars, writerVars>>

\* a call of next() on the only reader, as long as it has handed out fewer
\* than MaxPulls chunks
PullNextCapped ==
    /\ Len(outs) = 1
    /\ Len(outs[1]) < MaxPulls
    /\ PullNext(1)

\* a call of next_back() on the reader
PullNextBack ==
    /\ ~panicked
    /\ ~par
    /\ Len(iters) = 1
    /\ Pull(1, next_back(iters[1], files, overflow_checks))
    /\ UNCHANGED <<mode, par, root, pre_out, last_split, len_result>>
    /\ UNCHANGED <<bedVars, writerVars>>

LenReturned(l) ==
    IF l.ok
    THEN /\ len_result' = Some(l.val)
         /\ UNCHANGED panicked
    ELSE /\ panicked' = TRUE
         /\ UNCHANGED len_result

\* a call of len() on reader i
CallLen(i) ==
    /\ ~panicked
    /\ i \in 1..Len(iters)
    /\ LenReturned(len(iters[i], overflow_checks))
    /\ UNCHANGED <<iters, mode, outs, par, root, pre_out, last_split>>
    /\ UNCHANGED <<bedVars, writerVars>>

\* IntoParallelIterator::into_par_iter followed by with_producer: the
\* reader, in whatever state it is, becomes the producer handed to rayon
IntoParIter ==
    /\ ~panicked
    /\ ~par
    /\ Len(iters) = 1
    /\ par' = TRUE
    /\ mode' = <<"producer">>
    /\ pre_out' = outs[1]
    /\ outs' = <<(<<>>)>>
    /\ UNCHANGED <<iters, root, last_split, len_result, panicked>>
    /\ UNCHANGED <<bedVars, writerVars>>

\* s with element i replaced by the two elements a, b
Replace2(s, i, a, b) ==
    SubSeq(s, 1, i - 1) \o <<a, b>> \o SubSeq(s, i + 1, Len(s))

\* the two producers split_at returns take the place of producer i; the
\* unwrap() in PlinkColChunkIter::new panics when a half cannot be built
Split(i, index, sp) ==
    IF sp.ok
    THEN /\ iters' = Replace2(iters, i, sp.first, sp.second)
         /\ mode' = Replace2(mode, i, "producer", "producer")
         /\ outs' = Replace2(outs, i, <<>>, <<>>)
         /\ last_split' = Some([orig |-> iters[i], index |-> index,
                                first |-> sp.first, second |-> sp.second])
         /\ UNCHANGED panicked
    ELSE /\ panicked' = TRUE
         /\ UNCHANGED <<iters, mode, outs, last_split>>

\* the indices the Producer contract allows: 0..len()
SplitIndices(l) == IF l.ok /\ ~l.underflow THEN 0..l.val ELSE {}

\* Producer::split_at(index) on producer i
SplitAt(i, index) ==
    /\ ~panicked
    /\ par
    /\ i \in 1..Len(iters)
    /\ mode[i] = "producer"
    /\ Len(iters) < MaxLeaves
    /\ index \in SplitIndices(len(iters[i], overflow_checks))
    /\ Split(i, index, split_at(iters[i], index))
    /\ UNCHANGED <<par, root, pre_out, len_result>>
    /\ UNCHANGED <<bedVars, writerVars>>

\* Producer::split_at(index) on the producer into_par_iter made: the fresh
\* reader becomes two sub-readers
SplitRoot(index) ==
    /\ Len(iters) = 1
    /\ pre_out = <<>>
    /\ SplitAt(1, index)

\* a call of next() on sub-reader i
PullLeaf(i) ==
    /\ par
    /\ Len(iters) = 2
    /\ PullNext(i)

\* Producer::into_iter on producer i: the executor stops splitting it
IntoIter(i) ==
    /\ ~panicked
    /\ par
    /\ i \in 1..Len(iters)
    /\ mode[i] = "producer"
    /\ mode' = [mode EXCEPT ![i] = "iter"]
    /\ UNCHANGED <<iters, outs, par, root, pre_out, last_split, len_result,
                   panicked>>
    /\ UNCHANGED <<bedVars, writerVars>>

\* PlinkBed::create_bed(arr, out_path)
CreateBed ==
    /\ arr # None
    /\ files = <<>>
    /\ files' = <<create_bed(arr[1])>>
    /\ UNCHANGED <<num_people, file_num_snps, overflow_checks>>
    /\ UNCHANGED <<readerVars, writerVars>>

\* PlinkBed::new over the written file, with a .fam of as many lines as the
\* matrix has rows and a .bim of as many lines as it has columns
PlinkBedNew ==
    /\ arr # None
    /\ files # <<>>
    /\ num_people = 0
    /\ num_people' = Len(arr[1][1])
    /\ file_num_snps' = << <<Len(arr[1]), "Additive">> >>
    /\ UNCHANGED <<files, overflow_checks>>
    /\ UNCHANGED <<readerVars, writerVars>>

GenotypeMatrixReturned(g) ==
    IF g.ok
    THEN /\ geno_result' = Some(g.cols)
         /\ UNCHANGED panicked
    ELSE /\ panicked' = TRUE
         /\ UNCHANGED geno_result

\* PlinkBed::get_genotype_matrix(None)
GetGenotypeMatrix ==
    /\ ~panicked
    /\ num_people > 0
    /\ arr # None
    /\ geno_result = None
    /\ GenotypeMatrixReturned(
          get_genotype_matrix(file_num_snps, num_people, files, None,
                              overflow_checks))
    /\ UNCHANGED <<arr, bedt, bedt_args, bedt_ok, otherVars>>
    /\ UNCHANGED <<iters, mode, outs, par, root, pre_out, last_split,
                   len_result>>
    /\ UNCHANGED bedVars

\* PlinkBed::create_bed_t(file_index, out_path, snp_byte_chunk_size)
BedTReturned(r) ==
    /\ bedt' = r.bytes
    /\ bedt_ok' = Some(r.ok)

CreateBedT(file_index, snp_byte_chunk_size) ==
    /\ ~panicked
    /\ num_people > 0
    /\ bedt = None
    /\ BedTReturned(create_bed_t(file_num_snps, num_people, files, file_index,
                                 snp_byte_chunk_size))
    /\ bedt_args' = Some(<<file_index, snp_byte_chunk_size>>)
    /\ UNCHANGED <<arr, geno_result, otherVars>>
    /\ UNCHANGED <<readerVars, bedVars>>

\* PlinkBed::create_dominance_geno_bed(file_index, out_path)
CreateDominanceGenoBed(file_index) ==
    /\ ~panicked
    /\ num_people > 0
    /\ dom = None
    /\ dom' = Some(create_dominance_geno_bed(file_num_snps, num_people, files,
                                             file_index))
    /\ dom_args' = Some(file_index)
    /\ UNCHANGED <<arr, geno_result, bedt, bedt_args, bedt_ok, dom_geno,
                   new_result, codec_in, codec_out, indexer_call>>
    /\ UNCHANGED <<readerVars, bedVars>>

DominanceMatrixReturned(g) ==
    IF g.ok
    THEN /\ dom_geno' = Some(g.cols)
         /\ UNCHANGED panicked
    ELSE /\ panicked' = TRUE
         /\ UNCHANGED dom_geno

\* the file create_dominance_geno_bed wrote, opened with the same .bim and
\* .fam as an Additive file and read by get_genotype_matrix(None).unwrap()
GetDominanceGenotypeMatrix ==
    /\ ~panicked
    /\ dom # None
    /\ dom[1].ok
    /\ Len(files) = 1
    /\ dom_geno = None
    /\ SubSeq(dom[1].bytes, 1, NUM_MAGIC_BYTES) = MAGIC_BYTES
    /\ DominanceMatrixReturned(
          get_genotype_matrix(<< <<file_num_snps[1][1], "Additive">> >>,
                              num_people, <<dom[1].bytes>>, None,
                              overflow_checks))
    /\ UNCHANGED <<arr, geno_result, bedt, bedt_args, bedt_ok, dom, dom_args,
                   new_result, codec_in, codec_out, indexer_call>>
    /\ UNCHANGED <<iters, mode, outs, par, root, pre_out, last_split,
                   len_result>>
    /\ UNCHANGED bedVars

codecUnchanged ==
    UNCHANGED <<bedVars, readerVars, arr, geno_result, bedt, bedt_args,
                bedt_ok, dom, dom_args, dom_geno, new_result, codec_in,
                indexer_call>>

\* lowest_two_bits_to_geno(byte) on the input byte
DecodeByte ==
    /\ codec_in # None
    /\ codec_out = None
    /\ codec_out' = Some(<<"geno", lowest_two_bits_to_geno(codec_in[1])>>)
    /\ codecUnchanged

\* geno_to_lowest_two_bits(geno) on the input byte
EncodeByte ==
    /\ codec_in # None
    /\ codec_out = None
    /\ codec_out' = Some(<<"bits", geno_to_lowest_two_bits(codec_in[1])>>)
    /\ codecUnchanged

\* geno_to_lowest_two_bits on the genotype the decoder returned
EncodeDecoded ==
    /\ codec_out # None
    /\ Len(codec_out[1]) = 2
    /\ codec_out[1][1] = "geno"
    /\ codec_out' = Some(codec_out[1]
                         \o <<"bits", geno_to_lowest_two_bits(codec_out[1][2])>>)
    /\ codecUnchanged

\* lowest_two_bits_to_geno on the code the encoder returned
DecodeEncoded ==
    /\ codec_out # None
    /\ Len(codec_out[1]) = 2
    /\ codec_out[1][1] = "bits"
    /\ codec_out' = Some(codec_out[1]
                         \o <<"geno", lowest_two_bits_to_geno(codec_out[1][2])>>)
    /\ codecUnchanged

newUnchanged ==
    UNCHANGED <<overflow_checks, readerVars, arr, geno_result, bedt,
                bedt_args, bedt_ok, dom, dom_args, dom_geno, codec_in,
                codec_out, indexer_call>>

\* Ok(PlinkBed { .. }) builds the reader; an Err builds nothing
NewReturned(recs, r) ==
    /\ new_result' = Some([op |-> "new", args |-> recs, ok |-> r.ok,
                           err |-> r.err])
    /\ IF r.ok
       THEN /\ num_people' = r.num_people
            /\ file_num_snps' = r.file_num_snps
            /\ files' = r.bed_path_list
       ELSE UNCHANGED <<num_people, file_num_snps, files>>

\* PlinkBed::new(bfile_path_list)
NewFromRecords ==
    /\ new_result = None
    /\ \E recs \in BfileLists : NewReturned(recs, PlinkBed_new(recs))
    /\ newUnchanged

\* PlinkBed::verify_magic_bytes(bed_filepath)
VerifyMagicBytes ==
    /\ new_result = None
    /\ \E bed \in BedContents :
           new_result' = Some([op |-> "verify", args |-> bed,
                               ok |-> verify_magic_bytes(bed).ok,
                               err |-> verify_magic_bytes(bed).err])
    /\ UNCHANGED <<num_people, file_num_snps, files>>
    /\ newUnchanged

\* FileSnpIndexer::get_file_snp_index(snp_index)
GetFileSnpIndex(snp_index) ==
    /\ indexer_call' =
          Some([snp_index |-> snp_index,
                loc |-> get_file_snp_index(file_num_snps, snp_index)])
    /\ UNCHANGED <<bedVars, readerVars, arr, geno_result, bedt, bedt_args,
                   bedt_ok, dom, dom_args, dom_geno, new_result, codec_in,
                   codec_out>>

(***************************************************************************)
(* Specifications.                                                          *)
(***************************************************************************)
RangeArgs == {None} \cup {Some(r) : r \in RangeSets(total_num_snps(file_num_snps))}

\* one reader, pulled from both ends
Next ==
    \/ \E k \in 1..MaxChunk, range \in RangeArgs : ColChunkIter(k, range)
    \/ PullNext(1)
    \/ PullNextBack
    \/ CallLen(1)

Spec == Init /\ [][Next]_vars

\* one reader, pulled from the front only
NextFwd ==
    \/ \E k \in 1..MaxChunk, range \in RangeArgs : ColChunkIter(k, range)
    \/ PullNext(1)
    \/ CallLen(1)

SpecFwd == Init /\ [][NextFwd]_vars

\* a call of next() on the reader changes something: the reader exists,
\* has not panicked and has SNPs left (with k >= 1 the call then moves
\* the cursor or panics; in every other state it changes nothing)
CanYield ==
    /\ root # None
    /\ ~panicked
    /\ iters[1].range_cursor < iters[1].num_snps_in_range

\* the same, with a caller that keeps calling next() while a call of it
\* can still change something (`for chunk in iter`): weak fairness of
\* PullNext(1), WF_vars(PullNext(1)), written out with CanYield for
\* ENABLED <<PullNext(1)>>_vars
SpecFwdFair ==
    /\ Init
    /\ [][NextFwd]_vars
    /\ ([]<>~CanYield \/ []<><<PullNext(1)>>_vars)

\* a reader pulled from the front, then handed to the parallel executor
NextPar ==
    \/ \E k \in 1..MaxChunk, range \in RangeArgs : ColChunkIter(k, range)
    \/ \E i \in 1..MaxLeaves : PullNext(i)
    \/ IntoParIter
    \/ \E i \in 1..MaxLeaves, index \in 0..MaxSnps : SplitAt(i, index)
    \/ \E i \in 1..MaxLeaves : IntoIter(i)

SpecPar == Init /\ [][NextPar]_vars

\* a matrix written by create_bed, read back and transposed
NextBed ==
    \/ CreateBed
    \/ PlinkBedNew
    \/ GetGenotypeMatrix
    \/ \E c \in 1..MaxByteChunk : CreateBedT(0, c)

SpecBed == InitBed /\ [][NextBed]_vars

\* a matrix written by create_bed, rewritten by create_dominance_geno_bed
\* and read back
NextDom ==
    \/ CreateBed
    \/ PlinkBedNew
    \/ CreateDominanceGenoBed(0)
    \/ GetDominanceGenotypeMatrix

SpecDom == InitBed /\ [][NextDom]_vars

\* a packed file of arbitrary codes, rewritten and read back
NextRaw ==
    \/ CreateDominanceGenoBed(0)
    \/ GetDominanceGenotypeMatrix

SpecRaw == InitRaw /\ [][NextRaw]_vars

\* the codec applied to a byte, and to its own result
NextCodec ==
    \/ DecodeByte
    \/ EncodeByte
    \/ EncodeDecoded
    \/ DecodeEncoded

SpecCodec == InitCodec /\ [][NextCodec]_vars

\* the builder and the header check on lists of records
NextNew ==
    \/ NewFromRecords
    \/ VerifyMagicBytes

SpecNew == InitNew /\ [][NextNew]_vars

\* a reader of several files: one file is transposed or rewritten
NextMulti ==
    \/ \E f \in 0..(MaxFiles - 1), c \in 1..MaxByteChunk : CreateBedT(f, c)
    \/ \E f \in 0..(MaxFiles - 1) : CreateDominanceGenoBed(f)

SpecMulti == Init /\ [][NextMulti]_vars

\* a fresh reader split into two sub-readers, pulled in any order
NextSplit ==
    \/ \E k \in 1..MaxChunk, range \in RangeArgs : ColChunkIter(k, range)
    \/ IntoParIter
    \/ \E index \in 0..MaxSnps : SplitRoot(index)
    \/ \E i \in 1..2 : IntoIter(i)
    \/ \E i \in 1..2 : PullLeaf(i)

SpecSplit == Init /\ [][NextSplit]_vars

\* one reader over all the SNPs of Additive and Dominance files, pulled
\* from the front
NextKinds ==
    \/ \E k \in 1..MaxChunk : ColChunkIter(k, None)
    \/ PullNext(1)

SpecKinds == InitKinds /\ [][NextKinds]_vars

\* the indexer asked for every index up to one past the last SNP and more
NextIndexer ==
    \E snp_index \in 0..(MaxSnps + 1) : GetFileSnpIndex(snp_index)

SpecIndexer == InitIndexer /\ [][NextIndexer]_vars

\* the ranges a caller can hand over: any set of indices up to total, the
\* first index past the last SNP
AnyRangeArgs ==
    {None} \cup {Some(r) : r \in RangeSets(total_num_snps(file_num_snps) + 1)}

\* one reader built from any chunk size and any range, pulled from both ends
NextArgs ==
    \/ \E k \in 0..MaxChunk, range \in AnyRangeArgs : ColChunkIter(k, range)
    \/ PullNextCapped
    \/ PullNextBack
    \/ CallLen(1)

SpecArgs == Init /\ [][NextArgs]_vars

(***************************************************************************)
(* Properties.                                                              *)
(***************************************************************************)
\* both next() and next_back() report done
Done(it) == it.range_cursor >= it.num_snps_in_range

\* the matrix materialised with no range
FullMatrix ==
    get_genotype_matrix(file_num_snps, num_people, files, None,
                        overflow_checks)

\* the columns of matrix m at the SNP indices idx
Select(m, idx) == [p \in 1..Len(idx) |-> m[idx[p] + 1]]

\* the two-bit code at position pos (0..3) of a byte
TwoBits(byte, pos) == BitAnd(Shr(byte, 2 * pos), 3)

C2_BothEndsYieldEveryRankOnce ==
    (root # None /\ ~panicked /\ Done(iters[1])) =>
        /\ Len(ColumnsOf(outs[1])) = RangeSize(root[1].range)
        /\ \A p \in 1..RangeSize(root[1].range) :
              Cardinality({q \in 1..Len(IndicesOf(outs[1])) :
                              IndicesOf(outs[1])[q] = root[1].range[p]}) = 1

\* C3: a next_back() that returns a chunk returns the c = min(k, r - c_f)
\* SNPs at ranks [r - c, r) of R; a next() that returns a chunk returns the
\* SNPs at ranks [c_f, c_f + c).
C3_BackTakesUntakenSuffix ==
    [][/\ (PullNextBack /\ ~panicked' /\ ~Done(iters[1])) =>
            outs'[1][Len(outs'[1])].idx =
                RangeSlice(iters[1].range,
                           iters[1].num_snps_in_range - NextChunkSize(iters[1]),
                           iters[1].num_snps_in_range)
       /\ (PullNext(1) /\ ~panicked' /\ ~Done(iters[1])) =>
            outs'[1][Len(outs'[1])].idx =
                RangeSlice(iters[1].range, iters[1].range_cursor,
                           iters[1].range_cursor + NextChunkSize(iters[1]))
      ]_vars

\* C4: the matrix read back from the file create_bed wrote is the matrix
\* written, elementwise, and reading it never fails.
C4_CreateBedRoundTrip ==
    /\ arr # None => ~panicked
    /\ geno_result # None => geno_result[1] = arr[1]

\* a matrix of 5 people (two bytes per SNP, one person in the last) and
\* two SNPs with all three genotypes, read back
C4_Witness ==
    /\ geno_result # None
    /\ num_people = 5
    /\ Len(arr[1]) = 2
    /\ \A g \in 0..2 : \E n \in 1..5 : arr[1][2][n] = g

\* every producer has been turned into an iterator and pulled to its end
AllLeavesDone ==
    \A i \in 1..Len(iters) : mode[i] = "iter" /\ Done(iters[i])

\* C5: however the executor splits the producer of a fresh reader and pulls
\* the leaves, no split or pull aborts, and once all leaves are done their
\* chunks, concatenated in sub-range order, hold the same columns as the
\* chunks of the sequential reader.
C5_ParallelEqualsSequential ==
    (par /\ pre_out = <<>>) =>
        /\ ~panicked
        /\ AllLeavesDone =>
              ColumnsOf(ConcatAll(outs)) =
                  ColumnsOf(RunAll(root[1], files, overflow_checks).chunks)

\* C6: every split_at(i) with 0 <= i <= len() returns two readers, over
\* R.slice(0..m) and R.slice(m..|R|) with m = min(k * i, |R|), and a half
\* over the empty RangeSet reports done on its first pull.
C6_SplitAtYieldsTwoReaders ==
    par =>
        /\ ~panicked
        /\ last_split # None =>
              /\ last_split[1].first.range =
                    RangeSlice(last_split[1].orig.range, 0,
                               Min(last_split[1].orig.num_snps_per_iter
                                     * last_split[1].index,
                                   RangeSize(last_split[1].orig.range)))
              /\ last_split[1].second.range =
                    RangeSlice(last_split[1].orig.range,
                               Min(last_split[1].orig.num_snps_per_iter
                                     * last_split[1].index,
                                   RangeSize(last_split[1].orig.range)),
                               RangeSize(last_split[1].orig.range))
              /\ last_split[1].first.range = <<>> => Done(last_split[1].first)
              /\ last_split[1].second.range = <<>> => Done(last_split[1].second)

\* C7: after a split_at that returned, the chunks of the first half followed
\* by those of the second are the chunks the original reader would still
\* have yielded, and the lengths of the halves add up to its length.
C7_HalvesYieldTheRemainingChunks ==
    last_split # None =>
        /\ RunAll(last_split[1].first, files, overflow_checks).chunks
             \o RunAll(last_split[1].second, files, overflow_checks).chunks
           = RunAll(last_split[1].orig, files, overflow_checks).chunks
        /\ len(last_split[1].first, overflow_checks).val
             + len(last_split[1].second, overflow_checks).val
           = len(last_split[1].orig, overflow_checks).val

\* C8: every state a call leaves satisfies 0 <= c_f <= r <= |R|, and no call
\* lowers c_f.
C8_CursorWithinBound ==
    [][iters' # <<>> =>
          /\ 0 <= iters'[1].range_cursor
          /\ iters'[1].range_cursor <= iters'[1].num_snps_in_range
          /\ iters'[1].num_snps_in_range <= RangeSize(iters'[1].range)
          /\ iters # <<>> => iters[1].range_cursor <= iters'[1].range_cursor
      ]_vars

\* C9: in every state len() is computed without underflow, is
\* ceil((r - c_f) / k) and is the number of chunks next() still yields.
C9_LenCountsRemainingChunks ==
    (root # None /\ ~panicked) =>
        /\ ~len(iters[1], overflow_checks).underflow
        /\ len(iters[1], overflow_checks).val =
              usize_div_ceil(iters[1].num_snps_in_range
                               - iters[1].range_cursor,
                             iters[1].num_snps_per_iter)
        /\ len(iters[1], overflow_checks).val =
              Len(RunAll(iters[1], files, overflow_checks).chunks)

\* C10: for a snp_byte_chunk_size that is a multiple of 4, the file
\* create_bed_t writes holds N_s blocks of ceil(N_v / 4) bytes, and bits
\* 2 (s mod 4), 2 (s mod 4) + 1 of byte n ceil(N_v / 4) + s / 4 are the code
\* the input file holds for individual n at SNP s.
C10_TransposeHoldsInputCodes ==
    (bedt_args # None /\ bedt_args[1][2] % 4 = 0) =>
        /\ bedt # None
        /\ Len(bedt[1]) = num_people * usize_div_ceil(Len(arr[1]), 4)
        /\ \A n \in 0..(num_people - 1), s \in 0..(Len(arr[1]) - 1) :
              TwoBits(bedt[1][n * usize_div_ceil(Len(arr[1]), 4) + (s \div 4) + 1],
                      s % 4)
              = TwoBits(files[1][NUM_MAGIC_BYTES + s * num_bytes_per_snp(num_people)
                                 + (n \div 4) + 1],
                        n % 4)

\* the number of SNPs of file f (0-based) of the reader
NumSnpsOf(f) == file_num_snps[f + 1][1]

\* C11: for a file f of the reader, create_bed_t(f, ..) with a chunk size
\* that is a multiple of 4 returns Ok and writes
\* N_s blocks of ceil(N_v(f) / 4) bytes, and create_dominance_geno_bed(f, ..)
\* returns Ok and writes the 3 magic bytes and N_v(f) blocks of ceil(N_s / 4)
\* bytes, whatever the SNP counts of the other files are.
C11_WritersUseSelectedFile ==
    /\ (/\ bedt_args # None
        /\ bedt_args[1][1] < Len(files)
        /\ bedt_args[1][2] % 4 = 0) =>
          /\ bedt_ok = Some(TRUE)
          /\ Len(bedt[1]) =
                num_people * usize_div_ceil(NumSnpsOf(bedt_args[1][1]), 4)
    /\ (dom_args # None /\ dom_args[1] < Len(files)) =>
          /\ dom[1].ok
          /\ Len(dom[1].bytes) =
                NUM_MAGIC_BYTES
                  + NumSnpsOf(dom_args[1]) * num_bytes_per_snp(num_people)

\* C12: the file create_dominance_geno_bed writes for a single-file Additive
\* reader over M is written without error and, read back as Additive with
\* get_genotype_matrix(None), is M with every 2 replaced by 1, in the same
\* shape.
C12_DominanceFileIsTwoToOne ==
    /\ (arr # None /\ dom # None) => (dom[1].ok /\ ~panicked)
    /\ (arr # None /\ dom_geno # None) =>
          dom_geno[1] =
              [c \in 1..Len(arr[1]) |->
                  [n \in 1..Len(arr[1][1]) |->
                      IF arr[1][c][n] = 2 THEN 1 ELSE arr[1][c][n]]]

\* a matrix of 5 people and two SNPs, the second with all three genotypes,
\* rewritten and read back
C12_Witness ==
    /\ arr # None
    /\ dom_geno # None
    /\ num_people = 5
    /\ Len(arr[1]) = 2
    /\ \A g \in 0..2 : \E n \in 1..5 : arr[1][2][n] = g

\* the two-bit code of person n (0-based) at SNP s (0-based) in a packed file
CodeAt(file, np, s, n) ==
    TwoBits(file[NUM_MAGIC_BYTES + s * num_bytes_per_snp(np) + (n \div 4) + 1],
            n % 4)

\* C13: in the file create_dominance_geno_bed writes, every person whose
\* input code is 01 (missing) has code 01 again, every 00 is written as 10,
\* and 10 and 11 are written unchanged.
C13_DominanceKeepsMissing ==
    (dom # None /\ Len(files) = 1) =>
        /\ dom[1].ok
        /\ \A s \in 0..(file_num_snps[1][1] - 1), n \in 0..(num_people - 1) :
              CodeAt(dom[1].bytes, num_people, s, n) =
                  IF CodeAt(files[1], num_people, s, n) = 0 THEN 2
                  ELSE CodeAt(files[1], num_people, s, n)

\* C14: encoding a genotype 0, 1 or 2 and decoding the code gives the
\* genotype back; decoding a code 00, 10 or 11 and encoding the genotype
\* gives the code back; the missing code 01 decodes to 0 and re-encodes to 11.
C14_CodecRoundTrip ==
    (codec_out # None /\ Len(codec_out[1]) = 4) =>
        /\ (codec_out[1][1] = "bits" /\ codec_in[1] \in {0, 1, 2}) =>
              codec_out[1][4] = codec_in[1]
        /\ (codec_out[1][1] = "geno" /\ codec_in[1] \in {0, 2, 3}) =>
              codec_out[1][4] = codec_in[1]
        /\ (codec_out[1][1] = "geno" /\ codec_in[1] = 1) =>
              (codec_out[1][2] = 0 /\ codec_out[1][4] = 3)

\* genotype 2 encoded (00) and decoded again
C14_Witness ==
    /\ codec_in = Some(2)
    /\ codec_out # None
    /\ Len(codec_out[1]) = 4
    /\ codec_out[1][1] = "bits"

\* the table 00 -> 2, 01 -> 0, 10 -> 1, 11 -> 0
GenoTable(code) ==
    CASE code = 0 -> 2
      [] code = 1 -> 0
      [] code = 2 -> 1
      [] code = 3 -> 0

\* C15: for every byte value the decoder returns the table entry of the two
\* lowest bits of the byte, whatever the higher bits are, and the encoder
\* returns a value in 0..3.
C15_CodecTotalOnBytes ==
    (codec_out # None /\ Len(codec_out[1]) = 2) =>
        /\ codec_out[1][1] = "geno" =>
              /\ codec_out[1][2] = GenoTable(codec_in[1] % 4)
              /\ codec_out[1][2] = lowest_two_bits_to_geno(codec_in[1] % 4)
        /\ codec_out[1][1] = "bits" => codec_out[1][2] \in 0..3

\* the byte 0xFA, code 10 under high bits left by a shift, decoded
C15_Witness ==
    /\ codec_in = Some(250)
    /\ codec_out = Some(<<"geno", 1>>)

\* the matrix a reader over file f (0-based) alone materialises
FileMatrix(f) ==
    get_genotype_matrix(<<file_num_snps[f + 1]>>, num_people, <<files[f + 1]>>,
                        None, overflow_checks)

\* the per-file matrices, column after column in list order
StackedFileMatrices ==
    ConcatAll([f \in 1..Len(files) |-> FileMatrix(f - 1).cols])

\* the SNP the next read_snp_bytes of the reader is for
NextSnp(it) == it.range[it.range_cursor + 1]

\* the stream position the read of SNP snp_index leaves in its file
PosAfterRead(it, snp_index, loc) ==
    read_snp_bytes(it, files, snp_index, overflow_checks).it.buf[loc[1] + 1]

\* the read of snp_index is the first read of the reader in that file, or
\* follows a read in another file
FirstReadInFile(it, loc) ==
    \/ it.last_read_file_snp_index = None
    \/ it.last_read_file_snp_index[1][1] # loc[1]

\* C16: get_genotype_matrix(None), and the chunks of a reader over all SNPs,
\* are the per-file matrices stacked column-wise in list order; and a read
\* that is the first in its file is made at the absolute offset
\* 3 + local * ceil(N_s / 4) of that file.
C16_FilesAreStackedInOrder ==
    /\ files # <<>> =>
          (FullMatrix.ok /\ FullMatrix.cols = StackedFileMatrices)
    /\ (/\ root # None
        /\ ~panicked
        /\ root[1].range = FromInterval(0, total_num_snps(file_num_snps) - 1)
        /\ Done(iters[1])) =>
          ColumnsOf(outs[1]) = StackedFileMatrices
    /\ (/\ root # None
        /\ ~panicked
        /\ ~Done(iters[1])
        /\ FirstReadInFile(iters[1],
              get_file_snp_index(file_num_snps, NextSnp(iters[1]))[1])) =>
          PosAfterRead(iters[1], NextSnp(iters[1]),
                       get_file_snp_index(file_num_snps, NextSnp(iters[1]))[1])
          = NUM_MAGIC_BYTES
              + (get_file_snp_index(file_num_snps, NextSnp(iters[1]))[1][2] + 1)
                  * usize_div_ceil(num_people, 4)

\* a reader over two files of 2 SNPs each and 5 people, read to the end in
\* chunks that cross the file boundary
C16_Witness ==
    /\ root # None
    /\ ~panicked
    /\ Done(iters[1])
    /\ num_people = 5
    /\ file_num_snps = << <<2, "Additive">>, <<2, "Additive">> >>
    /\ root[1].range = <<0, 1, 2, 3>>
    /\ root[1].num_snps_per_iter = 3
    /\ Len(outs[1]) = 2

RECURSIVE BimLines(_, _)

\* TRUE when the file begins with the bytes 0x6C, 0x1B, 0x01
BeginsWithMagic(bed) ==
    Len(bed) >= 3 /\ bed[1] = 108 /\ bed[2] = 27 /\ bed[3] = 1

\* the sum of the .bim line counts of the first n records
BimLines(recs, n) ==
    IF n = 0 THEN 0 ELSE recs[n].bim + BimLines(recs, n - 1)

\* the list of records PlinkBed::new must reject
BadRecords(recs) ==
    \/ recs = <<>>
    \/ \E i \in 1..Len(recs) : ~BeginsWithMagic(recs[i].bed)
    \/ \E i \in 1..Len(recs) : recs[i].bim = 0
    \/ \E i, j \in 1..Len(recs) : recs[i].fam # recs[j].fam
    \/ \E i \in 1..Len(recs) : recs[i].fam = 0

\* C17: PlinkBed::new returns an error and builds no reader when the list
\* is empty, a .bed file does not begin with the magic bytes, a .bim file
\* has no line, the .fam files differ in line count or have no line; in
\* every other case it succeeds with num_people the common .fam line count
\* and total_num_snps the sum of the .bim line counts.
C17_NewValidatesRecords ==
    (new_result # None /\ new_result[1].op = "new") =>
        IF BadRecords(new_result[1].args)
        THEN /\ ~new_result[1].ok
             /\ num_people = 0
             /\ files = <<>>
        ELSE /\ new_result[1].ok
             /\ num_people = new_result[1].args[1].fam
             /\ total_num_snps(file_num_snps) =
                   BimLines(new_result[1].args, Len(new_result[1].args))

\* two good files of 2 and 1 SNPs and 2 people, accepted
C17_Witness ==
    /\ new_result # None
    /\ new_result[1].op = "new"
    /\ new_result[1].ok
    /\ num_people = 2
    /\ file_num_snps = << <<2, "Additive">>, <<1, "Additive">> >>

\* C18 as stated: a file is accepted exactly when its first three bytes are
\* 0x6C, 0x1B, 0x01, and for every other content, a file shorter than three
\* bytes included, the error is BadFormat.
C18_AnyOtherContentIsBadFormat ==
    (new_result # None /\ new_result[1].op = "verify") =>
        IF BeginsWithMagic(new_result[1].args)
        THEN new_result[1].ok
        ELSE ~new_result[1].ok /\ new_result[1].err = "BadFormat"

\* C18 as amended: a file is accepted exactly when its first three bytes
\* are 0x6C, 0x1B, 0x01; a file of at least three bytes that begins
\* otherwise is rejected with BadFormat, a file shorter than three bytes
\* with an IO error.
C18_ShortFileIsIOError ==
    (new_result # None /\ new_result[1].op = "verify") =>
        IF BeginsWithMagic(new_result[1].args)
        THEN new_result[1].ok
        ELSE /\ ~new_result[1].ok
             /\ new_result[1].err =
                   IF Len(new_result[1].args) < 3 THEN "IO" ELSE "BadFormat"

\* a file cut after two magic bytes, rejected
C18_Witness ==
    /\ new_result # None
    /\ new_result[1].op = "verify"
    /\ new_result[1].args = <<108, 27>>
    /\ ~new_result[1].ok

\* C19: col_chunk_iter with an empty RangeSet returns a reader, the stream
\* of file 0 at local SNP 0, with c_f = 0 and r = 0, whose first next() and
\* first next_back() report done; the construction does not abort.
C19_EmptyRangeReaderIsBuilt ==
    [][(\E k \in 1..MaxChunk : ColChunkIter(k, Some(<<>>))) =>
          /\ ~panicked'
          /\ root' # None
          /\ iters'[1].range_cursor = 0
          /\ iters'[1].num_snps_in_range = 0
          /\ iters'[1].buf[1] = NUM_MAGIC_BYTES
          /\ ~next(iters'[1], files, overflow_checks).some
          /\ ~next_back(iters'[1], files, overflow_checks).some
      ]_vars

\* C20: on a reader over a non-empty RangeSet that has made no forward read,
\* next_back() returns a chunk and leaves the stream of file 0 at local
\* SNP 0, without aborting, whether or not the RangeSet holds SNP 0.
C20_FirstNextBackRepositions ==
    [][(/\ PullNextBack
        /\ iters[1].last_read_file_snp_index = None
        /\ ~Done(iters[1])) =>
          /\ ~panicked'
          /\ Len(outs'[1]) = Len(outs[1]) + 1
          /\ iters'[1].buf[1] = NUM_MAGIC_BYTES
          /\ iters'[1].last_read_file_snp_index = None
      ]_vars

\* TRUE when every index of the range argument is a SNP of the files
InBounds(range) ==
    range # None =>
        \A i \in 1..Len(range[1]) :
            range[1][i] < total_num_snps(file_num_snps)

\* C21: a RangeSet with an index outside [0, total) is refused with an
\* error value: no reader is built over it, nothing is read and nothing
\* aborts, so no reader ever holds a RangeSet that is not within [0, total).
C21_OutOfBoundsRangeIsRefused ==
    [][/\ (\E k \in 1..MaxChunk, range \in AnyRangeArgs :
              ~InBounds(range) /\ ColChunkIter(k, range)) =>
                 (~panicked' /\ root' = None)
       /\ iters' # <<>> => InBounds(Some(iters'[1].range))
       /\ (/\ iters # <<>>
           /\ ~InBounds(Some(iters[1].range))
           /\ iters[1].num_snps_per_iter > 0
           /\ PullNextCapped) =>
              ~panicked'
      ]_vars

\* C22: a chunk size of 0 is refused as an invalid argument: no reader with
\* k = 0 is built, next() on such a reader yields no chunk, and neither
\* next() nor len() aborts.
C22_ZeroChunkSizeIsRefused ==
    [][/\ (\E range \in AnyRangeArgs :
              InBounds(range) /\ ColChunkIter(0, range)) =>
                 (~panicked' /\ root' = None)
       /\ (/\ iters # <<>>
           /\ InBounds(Some(iters[1].range))
           /\ iters[1].num_snps_per_iter = 0
           /\ PullNextCapped) =>
              (~panicked' /\ outs' = outs)
       /\ (/\ iters # <<>>
           /\ InBounds(Some(iters[1].range))
           /\ iters[1].num_snps_per_iter = 0
           /\ CallLen(1)) =>
              ~panicked'
      ]_vars

\* C23: byte_chunk_iter, create_bed_t and create_dominance_geno_bed given a
\* file_index that is not below the number of files return an error, and
\* the file at out_path is neither created nor written.
C23_BadFileIndexLeavesOutPath ==
    /\ \A f \in Len(files)..MaxFiles :
          ~byte_chunk_iter(files, f, NUM_MAGIC_BYTES, NUM_MAGIC_BYTES + 1, 1).ok
    /\ (bedt_args # None /\ bedt_args[1][1] >= Len(files)) =>
          (bedt_ok = Some(FALSE) /\ bedt = None)
    /\ (dom # None /\ dom_args[1] >= Len(files)) =>
          (~dom[1].ok /\ ~dom[1].created)

\* the two-bit code of the format for a genotype: 2 is 00, 1 is 10, 0 is 11
CodeOfGeno(g) == IF g = 2 THEN 0 ELSE IF g = 1 THEN 2 ELSE 3

\* the file written for a matrix of np rows whose columns are cols
PackedLayout(file, cols, np) ==
    /\ Len(file) = 3 + Len(cols) * ((np + 3) \div 4)
    /\ SubSeq(file, 1, 3) = <<108, 27, 1>>
    /\ \A s \in 0..(Len(cols) - 1), j \in 0..(np - 1) :
          TwoBits(file[3 + s * ((np + 3) \div 4) + (j \div 4) + 1], j % 4) =
              CodeOfGeno(cols[s + 1][j + 1])
    /\ \A s \in 0..(Len(cols) - 1), j \in np..(4 * ((np + 3) \div 4) - 1) :
          TwoBits(file[3 + s * ((np + 3) \div 4) + (j \div 4) + 1], j % 4) = 0

\* C24: for a matrix of N_s rows and N_v columns over {0,1,2}, create_bed
\* writes 3 + N_v * ceil(N_s/4) bytes: the magic bytes, then one block per
\* column, in order, with the code of individual j in bits 2 (j mod 4) and
\* 2 (j mod 4) + 1 of byte j / 4 and zeros in the unused high bits of the
\* last byte.
C24_CreateBedLayout ==
    (arr # None /\ files # <<>>) =>
        PackedLayout(files[1], arr[1], Len(arr[1][1]))

\* a column of 5 people holding all three genotypes, written in two bytes
C24_Witness ==
    /\ arr # None
    /\ files # <<>>
    /\ Len(arr[1][1]) = 5
    /\ Len(files[1]) = 3 + 2 * Len(arr[1])
    /\ \A g \in 0..2 : \E n \in 1..5 : arr[1][1][n] = g

\* C25: get_file_snp_index(i) is (f, i - prefix(f), kind(f)) for the one
\* file f with prefix(f) <= i < prefix(f) + N_v(f), prefix(f) being the sum
\* of the counts of the files before f, and None exactly when i is not
\* below the sum of all counts; prefix(f) + local is i again.
C25_IndexResolvesToFileAndLocal ==
    indexer_call # None =>
        IF indexer_call[1].snp_index >= total_num_snps(file_num_snps)
        THEN indexer_call[1].loc = None
        ELSE /\ indexer_call[1].loc # None
             /\ \A f \in 0..(Len(file_num_snps) - 1) :
                   (/\ SumCounts(file_num_snps, f) <= indexer_call[1].snp_index
                    /\ indexer_call[1].snp_index <
                          SumCounts(file_num_snps, f) + file_num_snps[f + 1][1])
                   => indexer_call[1].loc[1] =
                         <<f,
                           indexer_call[1].snp_index
                             - SumCounts(file_num_snps, f),
                           file_num_snps[f + 1][2]>>
             /\ indexer_call[1].loc[1][1] < Len(file_num_snps)
             /\ SumCounts(file_num_snps, indexer_call[1].loc[1][1])
                   + indexer_call[1].loc[1][2] = indexer_call[1].snp_index

\* the first SNP of a second file, a Dominance one, after two SNPs
C25_Witness ==
    /\ indexer_call # None
    /\ file_num_snps = << <<2, "Additive">>, <<2, "Dominance">> >>
    /\ indexer_call[1].snp_index = 2
    /\ indexer_call[1].loc = Some(<<1, 0, "Dominance">>)

\* the chunks a reader over the range of reader it yields when it is built
\* and pulled to its end with no other reader around
ChunksAlone(it) ==
    RunAll(clone_with_range(it, it.range).it, files, overflow_checks).chunks

\* C26: the sub-readers split_at builds share no stream state: a pull on
\* one reader leaves the stream positions, the last read location and the
\* chunks of every other reader as they were, and however the pulls on the
\* sub-readers interleave, the chunks a sub-reader has yielded are the
\* first chunks it yields when run alone.
C26_SubReadersAreIndependent ==
    [][/\ \A i \in 1..2 :
             PullLeaf(i) =>
                 \A j \in 1..Len(iters) :
                     j # i => (iters'[j] = iters[j] /\ outs'[j] = outs[j])
       /\ (par' /\ ~panicked' /\ Len(iters') >= 2) =>
             \A i \in 1..Len(iters') :
                 /\ Len(outs'[i]) <= Len(ChunksAlone(iters'[i]))
                 /\ outs'[i] =
                       SubSeq(ChunksAlone(iters'[i]), 1, Len(outs'[i]))
      ]_vars

\* two sub-readers of two chunks each, both pulled to the end
C26_Witness ==
    /\ par
    /\ ~panicked
    /\ Len(iters) = 2
    /\ \A i \in 1..2 :
          /\ mode[i] = "iter"
          /\ Done(iters[i])
          /\ Len(outs[i]) = 2

\* the additive genotype of person n (0-based) at logical SNP snp_index,
\* decoded from the file that holds it by the table of the format
AdditiveAt(snp_index, n) ==
    GenoTable(CodeAt(files[get_file_snp_index(file_num_snps, snp_index)[1][1] + 1],
                     num_people,
                     get_file_snp_index(file_num_snps, snp_index)[1][2], n))

\* the sum of the additive genotypes of the first n people at snp_index
RECURSIVE AdditiveSum(_, _)
AdditiveSum(snp_index, n) ==
    IF n = 0 THEN 0
    ELSE AdditiveAt(snp_index, n - 1) + AdditiveSum(snp_index, n - 1)

\* TRUE when the fraction v is x p + y with p = sum / (2 num_people)
IsAffineInP(v, x, y, sum) ==
    /\ v[2] > 0
    /\ v[1] * 2 * num_people = (x * sum + y * 2 * num_people) * v[2]

\* TRUE when col is the column the reader must emit for snp_index
EmittedColumnIs(col, snp_index, kind) ==
    /\ Len(col) = num_people
    /\ \A n \in 0..(num_people - 1) :
          IF kind = "Additive"
          THEN col[n + 1] = AdditiveAt(snp_index, n)
          ELSE CASE AdditiveAt(snp_index, n) = 2 ->
                      IsAffineInP(col[n + 1], 4, -2,
                                  AdditiveSum(snp_index, num_people))
                 [] AdditiveAt(snp_index, n) = 1 ->
                      IsAffineInP(col[n + 1], 2, 0,
                                  AdditiveSum(snp_index, num_people))
                 [] OTHER -> IsAffineInP(col[n + 1], 0, 0, 0)

\* C27: every column read from a Dominance file is the decoded additive
\* column g, missing counted as 0, with 2 replaced by 4p - 2, 1 by 2p and 0
\* by 0, where p = sum(g) / (2 N_s) over the whole column; every column of
\* an Additive file is g itself.
C27_DominanceColumns ==
    (root # None) =>
        /\ ~panicked
        /\ \A c \in 1..Len(outs[1]) :
              \A q \in 1..Len(outs[1][c].idx) :
                  EmittedColumnIs(
                      outs[1][c].cols[q], outs[1][c].idx[q],
                      get_file_snp_index(file_num_snps,
                                         outs[1][c].idx[q])[1][3])

\* a column of a Dominance file with a missing code, a 2 and a 1, emitted
\* after a column of an Additive file
C27_Witness ==
    /\ root # None
    /\ num_people = 4
    /\ file_num_snps = << <<1, "Additive">>, <<1, "Dominance">> >>
    /\ Len(outs[1]) = 1
    /\ outs[1][1].idx = <<0, 1>>
    /\ outs[1][1].cols[2] = << <<0, 1>>, <<3, 4>>, <<0, 1>>, <<-2, 4>> >>

\* C28: next_back() changes only the reverse bound r: it leaves c_f and
\* last_read_location as they were, and the next() after it returns the
\* chunk, ranks and columns, that next() would have returned in its place,
\* when those ranks are still below r.
C28_NextBackKeepsForwardState ==
    [][(PullNextBack /\ ~Done(iters[1])) =>
          /\ ~panicked'
          /\ iters'[1].range_cursor = iters[1].range_cursor
          /\ iters'[1].last_read_file_snp_index =
                iters[1].last_read_file_snp_index
          /\ (iters[1].range_cursor + NextChunkSize(iters[1])
                 <= iters'[1].num_snps_in_range) =>
                next(iters'[1], files, overflow_checks).chunk =
                    next(iters[1], files, overflow_checks).chunk
      ]_vars

\* the location of the SNP the next read_snp_bytes of the reader is for
NextLoc(it) == get_file_snp_index(it.file_num_snps, NextSnp(it))[1]

\* C29: after any calls of next() and next_back(), a read for the SNP at
\* (file f, local l) is made at offset 3 + l * ceil(N_s / 4) of file f: when
\* next() takes the same-file path with last_read_location = (f, prev), the
\* stream of file f stands at 3 + (prev + 1) * ceil(N_s / 4), and the columns
\* it returns are those of the SNPs it was asked for.
C29_ReadsAtBlockOffset ==
    [][(PullNext(1) /\ ~Done(iters[1])) =>
          /\ SameFileAsLast(iters[1], NextLoc(iters[1])) =>
                iters[1].buf[NextLoc(iters[1])[1] + 1] =
                    NUM_MAGIC_BYTES
                      + (iters[1].last_read_file_snp_index[1][2] + 1)
                          * usize_div_ceil(num_people, 4)
          /\ ~panicked'
          /\ outs'[1][Len(outs'[1])].cols =
                Select(FullMatrix.cols, outs'[1][Len(outs'[1])].idx)
      ]_vars

RECURSIVE ReadsOf(_, _, _)
RECURSIVE ReadsOfCons(_, _, _, _)

\* the read rd of snp_indices[p], as the file, the offset it started at and
\* the bytes it returned, followed by the reads after it
ReadsOfCons(rd, loc, snp_indices, p) ==
    <<[file |-> loc[1],
       pos |-> rd.it.buf[loc[1] + 1] - num_bytes_per_snp(num_people),
       bytes |-> rd.bytes]>>
    \o ReadsOf(rd.it, snp_indices, p + 1)

\* the reads the reader makes for snp_indices[p..]
ReadsOf(it, snp_indices, p) ==
    IF p > Len(snp_indices) THEN <<>>
    ELSE ReadsOfCons(read_snp_bytes(it, files, snp_indices[p], overflow_checks),
                     get_file_snp_index(file_num_snps, snp_indices[p])[1],
                     snp_indices, p)

\* the read a reader makes for the SNP at loc when it seeks to
\* 3 + local * ceil(N_s / 4) from the start of the file before reading
AbsoluteRead(loc) ==
    [file |-> loc[1],
     pos |-> 3 + loc[2] * ((num_people + 3) \div 4),
     bytes |-> SubSeq(files[loc[1] + 1],
                      3 + loc[2] * ((num_people + 3) \div 4) + 1,
                      3 + (loc[2] + 1) * ((num_people + 3) \div 4))]

\* the reads of the reference reader for snp_indices
AbsoluteReads(snp_indices) ==
    [p \in 1..Len(snp_indices) |->
        AbsoluteRead(get_file_snp_index(file_num_snps, snp_indices[p])[1])]

\* C30: under next() calls only, over any RangeSet and any number of
\* files, the reader reads every SNP of its next chunk in the file and at
\* the offset at which a reader that seeks to 3 + local * ceil(N_s / 4)
\* before every read reads it, and the chunk it returns holds the columns
\* decoded from the bytes that reader gets.
C30_RelativeSeekEqualsAbsolute ==
    (root # None /\ ~panicked /\ ~Done(iters[1])) =>
        /\ ReadsOf(iters[1],
                   ChunkIndices(iters[1], NextChunkSize(iters[1])), 1)
             = AbsoluteReads(ChunkIndices(iters[1], NextChunkSize(iters[1])))
        /\ next(iters[1], files, overflow_checks).ok
        /\ next(iters[1], files, overflow_checks).chunk.cols =
              [p \in 1..NextChunkSize(iters[1]) |->
                  DecodeSnp(
                      AbsoluteReads(ChunkIndices(iters[1],
                                                 NextChunkSize(iters[1])))[p].bytes,
                      num_people)]

\* a reader about to skip a SNP of the second file: the SNP read last is
\* local 0 of file 1, the next one is local 2
C30_Witness ==
    /\ root # None
    /\ ~panicked
    /\ ~Done(iters[1])
    /\ file_num_snps = << <<1, "Additive">>, <<3, "Additive">> >>
    /\ iters[1].last_read_file_snp_index = Some(<<1, 0>>)
    /\ NextSnp(iters[1]) = 3
    /\ num_people = 5

\* ceil(|R| / k) for the reader as it was built
NumChunks == (RangeSize(root[1].range) + root[1].num_snps_per_iter - 1) \div root[1].num_snps_per_iter

\* the number of columns of the j-th chunk: k, except for the last
ChunkWidth(j) ==
    IF j < NumChunks THEN root[1].num_snps_per_iter
    ELSE RangeSize(root[1].range) - root[1].num_snps_per_iter * (NumChunks - 1)

\* the chunks handed out so far are the first chunks of the run, each of
\* shape (N_s, c), and next() reports done exactly after the last of them
ChunksSoFarAreShaped ==
    root # None =>
        /\ ~panicked
        /\ Len(outs[1]) <= NumChunks
        /\ Done(iters[1]) <=> Len(outs[1]) = NumChunks
        /\ \A j \in 1..Len(outs[1]) :
              /\ Len(outs[1][j].cols) = ChunkWidth(j)
              /\ ChunkWidth(j) \in 1..root[1].num_snps_per_iter
              /\ \A c \in 1..Len(outs[1][j].cols) :
                    Len(outs[1][j].cols[c]) = num_people

\* the reader exists and its next() reports done
ReportsDone == root # None /\ Done(iters[1])

GapIsPositive(it, loc) ==
    SameFileAsLast(it, loc) => loc[2] > it.last_read_file_snp_index[1][2]

RECURSIVE EveryGapIsPositive(_, _, _)

\* the reads that follow the read rd of snp_indices[p], if it returned
EveryGapIsPositiveAfter(rd, snp_indices, p) ==
    rd.ok => EveryGapIsPositive(rd.it, snp_indices, p + 1)

\* every read of the loop of read_chunk over snp_indices[p..], started by
\* reader it, finds a positive gap
EveryGapIsPositive(it, snp_indices, p) ==
    \/ p > Len(snp_indices)
    \/ /\ GapIsPositive(it, get_file_snp_index(it.file_num_snps, snp_indices[p])[1])
       /\ EveryGapIsPositiveAfter(
              read_snp_bytes(it, files, snp_indices[p], overflow_checks),
              snp_indices, p)

\* the reads of read_chunk(chunk_size) started by the reader sk.it that
\* next_back has positioned, if its seek returned
BackReadsGapIsPositive(sk, chunk_size) ==
    sk.ok => EveryGapIsPositive(sk.it, ChunkIndices(sk.it, chunk_size), 1)

\* the reads next_back makes from reader it1, whose bound it has lowered
BackGapIsPositive(it1, chunk_size) ==
    SnpAtBound(it1) # None =>
        BackReadsGapIsPositive(seek_to_snp(it1, SnpAtBound(it1)[1]), chunk_size)

\* C32: in every state reached by next() and next_back() calls over a
\* RangeSet within [0, total), every read of read_snp_bytes that the next
\* call of next() or of next_back() makes and that finds the location read
\* last in the file of the SNP to read, finds it at a lower local index:
\* the gap l - prev is at least 1 and the subtraction does not underflow.
C32_SameFileGapIsPositive ==
    (root # None /\ ~panicked /\ ~Done(iters[1])) =>
        /\ EveryGapIsPositive(
              iters[1], ChunkIndices(iters[1], NextChunkSize(iters[1])), 1)
        /\ BackGapIsPositive(
              BackLowered(iters[1], NextChunkSize(iters[1])),
              NextChunkSize(iters[1]))

\* after a next() and a next_back(), the reader is about to take the
\* same-file path over a gap of 2, and has a chunk of two reads ahead
C32_Witness ==
    /\ root # None
    /\ ~panicked
    /\ ~Done(iters[1])
    /\ iters[1].num_snps_in_range < RangeSize(iters[1].range)
    /\ iters[1].last_read_file_snp_index # None
    /\ SameFileAsLast(iters[1], NextLoc(iters[1]))
    /\ NextLoc(iters[1])[2] - iters[1].last_read_file_snp_index[1][2] >= 2
    /\ Len(outs[1]) >= 2

====
